---- MODULE Spec2Model ----
(***************************************************************************)
(* Capital-structure pipeline: balance-sheet extraction, debt and lease    *)
(* note parsing, build_capital_structure and run_self_assessment; and the   *)
(* job server that runs the builder and the renderer for uploaded          *)
(* documents.                                                              *)
(*                                                                         *)
(* Python values are tagged records: None, Float, PyInt, Str.              *)
(* A float holding an amount in $mm is kept as an integer number of        *)
(* 1/10000 $mm, so that rounding to three decimals (round3) is a real      *)
(* operation on it.  A string is a sequence of tokens (words and           *)
(* punctuation marks), so that containment tests are computed.             *)
(***************************************************************************)
EXTENDS Integers, Sequences, FiniteSets, TLC

VARIABLES
    metadata,        \* metadata.json of the last build call
    balance_sheet,   \* balance_sheet.json of the last build call
    debt_note_html,  \* debt_note.html of the last build call
    lease_note_html, \* lease_note.html of the last build call
    market_cap_arg,  \* the market_cap_mm argument of the last build call
    built,           \* the document: build_capital_structure's result, or a loaded one
    origin,          \* "none" | "builder" | "foreign": who assembled `built`
    error,           \* exception raised by the last build call ("none" if it returned)
    report,          \* run_self_assessment's result for `built`
    pc,              \* "idle" | "built" | "failed" | "loaded" | "assessed"
    call,            \* a direct call of one parser function: its name and arguments
    result,          \* what that call returned
    _jobs,           \* JobManager._jobs: the Job of each job id 1..Len(_jobs)
    threads,         \* the runner thread of each job: its position, arguments and locals
    _sema,           \* JobManager._sema: the permits left
    posts,           \* the POST /api/jobs exchange that created each job
    request          \* the GET request in progress, or the last one with its response

\* the variables of the job server
server == <<_jobs, threads, _sema, posts, request>>

vars ==
    <<metadata, balance_sheet, debt_note_html, lease_note_html, market_cap_arg, built, origin,
      error, report, pc, call, result, _jobs, threads, _sema, posts, request>>

\* the permits of the semaphore in the model (settings.MAX_CONCURRENT_JOBS,
\* by default 10), and the most jobs created
MAX_CONCURRENT_JOBS == 1
MaxJobs == 2

-----------------------------------------------------------------------------
(* Python values *)

None == [tag |-> "none"]
Float(x) == [tag |-> "float", val |-> x]
PyInt(n) == [tag |-> "int", val |-> n]
Str(toks) == [tag |-> "str", val |-> toks]

\* units of the fixed-point representation per 1.0 $mm and per 0.001 $mm
UnitsPerMM == 10 * 1000
UnitsPerMilli == UnitsPerMM \div 1000

IsNumber(v) == v.tag \in {"float", "int"}

\* float(v) of a Python number, in fixed-point units
FloatOf(v) == IF v.tag = "int" THEN v.val * UnitsPerMM ELSE v.val

\* Python truthiness of the values the model uses
Truthy(v) ==
    CASE v.tag = "none" -> FALSE
      [] v.tag = "float" -> v.val # 0
      [] v.tag = "int" -> v.val # 0
      [] v.tag = "str" -> Len(v.val) > 0
      [] OTHER -> TRUE

\* d.get(key): None when the key is absent
Get(d, key) == IF key \in DOMAIN d THEN d[key] ELSE None

Abs(x) == IF x < 0 THEN -x ELSE x

\* round(x, 3) of a float: to the nearest 0.001, ties to the even neighbour
Round3Units(x) ==
    LET q == x \div UnitsPerMilli
        r == x % UnitsPerMilli
        half == UnitsPerMilli \div 2
    IN  IF r < half THEN q * UnitsPerMilli
        ELSE IF r > half THEN (q + 1) * UnitsPerMilli
        ELSE IF q % 2 = 0 THEN q * UnitsPerMilli
        ELSE (q + 1) * UnitsPerMilli

-----------------------------------------------------------------------------
(* Strings as token sequences *)

\* whether `needle` occurs in `hay` as a contiguous run of tokens
Contains(hay, needle) ==
    \E i \in 0..(Len(hay) - Len(needle)) :
        \A j \in 1..Len(needle) : hay[i + j] = needle[j]

\* str.lower(), token by token: the tokens with an upper-case letter and
\* their lower-case forms
LowerTable ==
    {<<"Senior", "senior">>, <<"Unsecured", "unsecured">>, <<"Secured", "secured">>,
     <<"Notes", "notes">>, <<"Due", "due">>, <<"Revolving", "revolving">>,
     <<"Credit", "credit">>, <<"Facility", "facility">>, <<"Agreement", "agreement">>,
     <<"Term", "term">>, <<"Loan", "loan">>, <<"March", "march">>, <<"April", "april">>,
     <<"Instant", "instant">>, <<"Cash", "cash">>, <<"Restricted", "restricted">>,
     <<"Noncontrolling", "noncontrolling">>, <<"Total", "total">>,
     <<"Non-current", "non-current">>, <<"Assets", "assets">>, <<"Variable", "variable">>,
     <<"UNSECURED", "unsecured">>, <<"REVOLVING", "revolving">>, <<"CREDIT", "credit">>,
     <<"FACILITY", "facility">>, <<"NOTES", "notes">>, <<"DUE", "due">>,
     <<"MARCH", "march">>, <<"AGREEMENT", "agreement">>}

LowerTok(t) ==
    IF \E p \in LowerTable : p[1] = t
    THEN (CHOOSE p \in LowerTable : p[1] = t)[2]
    ELSE t

_lower(s) == [i \in 1..Len(s) |-> LowerTok(s[i])]

-----------------------------------------------------------------------------
(* balance_sheet_json_parser.py *)

\* An ISO date string "YYYY-MM-DD" is the token sequence <<Y, M, D>> of its
\* three numbers; _parse_iso_date orders dates by (year, month, day).
DateKey(d) == (d.val[1] * 10000) + (d.val[2] * 100) + d.val[3]

_parse_iso_date(d) ==
    IF ~Truthy(d) THEN None
    ELSE IF d.tag = "str" /\ Len(d.val) = 3 THEN d
    ELSE None

\* _safe_float of a JSON value: a number, or None for null and for the
\* dash strings and other non-numeric text
_safe_float(x) == IF IsNumber(x) THEN Float(FloatOf(x)) ELSE None

\* x * 10^e in fixed point (e may be negative)
RECURSIVE Pow10(_)
Pow10(e) == IF e = 0 THEN 1 ELSE 10 * Pow10(e - 1)

ScaleBy(x, e) == IF e >= 0 THEN x * Pow10(e) ELSE x \div Pow10(-e)

\* a faulty conversion: the display value taken as millions whatever the scale
ToMillionsIgnoringScale(value_obj) ==
    IF value_obj.tag # "dict" THEN None
    ELSE
        LET nv == _safe_float(Get(value_obj, "numeric_value"))
            dv == _safe_float(Get(value_obj, "display_value"))
        IN  IF nv # None THEN Float(ScaleBy(nv.val, -6))
            ELSE IF dv = None THEN None
            ELSE Float(dv.val)

\* numeric_value is an amount in dollars, display_value an amount in units
\* of 10^scale dollars; the result is in $mm
_to_millions(value_obj) ==
    IF value_obj.tag # "dict" THEN None
    ELSE
        LET nv == _safe_float(Get(value_obj, "numeric_value"))
            dv == _safe_float(Get(value_obj, "display_value"))
            scale_raw == Get(value_obj, "scale")
            scale == IF scale_raw.tag = "int" THEN scale_raw.val ELSE 6
        IN  IF nv # None THEN Float(ScaleBy(nv.val, -6))
            ELSE IF dv = None THEN None
            ELSE Float(ScaleBy(dv.val, scale - 6))

\* a value object of a row: {numeric_value, display_value, scale}
ValueObj(nv, dv, scale) ==
    [tag |-> "dict", numeric_value |-> nv, display_value |-> dv, scale |-> scale]

\* _norm_label: lower-case, punctuation replaced by blanks
IsPunct(t) == t \in {",", "&", "-", "(", ")", "."}

RECURSIVE DropPunct(_)
DropPunct(s) ==
    IF s = <<>> THEN <<>>
    ELSE IF IsPunct(Head(s)) THEN DropPunct(Tail(s))
    ELSE <<Head(s)>> \o DropPunct(Tail(s))

_norm_label(s) == DropPunct(_lower(s))

_iter_rows(bs) == Get(bs, "rows")

\* _load_periods: the columns that have a key
_load_periods(bs) ==
    SelectSeq(bs.columns, LAMBDA c : c.key # "")

\* a faulty score: the instant test ranked above the fourth-quarter test
PeriodScoreInstantFirst(p) ==
    LET q4 == IF p.fiscal_quarter = PyInt(4) THEN 1 ELSE 0
        inst == IF p.period_type.tag = "str" /\ _lower(p.period_type.val) = <<"instant">>
                THEN 1 ELSE 0
        ed == IF _parse_iso_date(p.end_date) = None THEN 19000101
              ELSE DateKey(p.end_date)
    IN  <<inst, q4, ed>>

\* score of a period: (q4, inst, end date), compared as a tuple
PeriodScore(p) ==
    LET q4 == IF p.fiscal_quarter = PyInt(4) THEN 1 ELSE 0
        inst == IF p.period_type.tag = "str" /\ _lower(p.period_type.val) = <<"instant">>
                THEN 1 ELSE 0
        ed == IF _parse_iso_date(p.end_date) = None THEN 19000101
              ELSE DateKey(p.end_date)
    IN  <<q4, inst, ed>>

TupleLess(a, b) ==
    \E i \in 1..Len(a) :
        /\ a[i] < b[i]
        /\ \A j \in 1..(i - 1) : a[j] = b[j]

\* sorted(candidates, key=score, reverse=True)[0]: the sort is stable, so the
\* first candidate in document order among those with the highest score
BestPeriod(candidates) ==
    LET i == CHOOSE k \in 1..Len(candidates) :
                /\ \A j \in 1..Len(candidates) :
                      ~TupleLess(PeriodScore(candidates[k]), PeriodScore(candidates[j]))
                /\ \A j \in 1..(k - 1) :
                      TupleLess(PeriodScore(candidates[j]), PeriodScore(candidates[k]))
    IN  candidates[i]

\* rows that carry a non-empty values object, in document order
RowsWithValues(bs) == SelectSeq(_iter_rows(bs), LAMBDA r : Len(r.values) > 0)

\* returns <<period key, end date>>
select_period_key_for_annual_period(bs, annual_period) ==
    LET periods == _load_periods(bs)
        candidates == SelectSeq(periods, LAMBDA p : p.fiscal_year = PyInt(annual_period))
    IN  IF candidates = <<>> THEN
            IF periods # <<>> THEN <<periods[1].key, periods[1].end_date>>
            ELSE IF RowsWithValues(bs) # <<>>
                 THEN <<RowsWithValues(bs)[1].values[1].key, None>>
            ELSE <<"UNKNOWN", None>>
        ELSE <<BestPeriod(candidates).key, BestPeriod(candidates).end_date>>

\* text of an optional string field ("" when None)
TextOf(v) == IF v.tag = "str" THEN v.val ELSE <<>>

\* the first element of seq that satisfies Test, or None
FirstWhere(seq, Test(_)) ==
    IF \E i \in 1..Len(seq) : Test(seq[i])
    THEN seq[CHOOSE i \in 1..Len(seq) :
                 Test(seq[i]) /\ \A j \in 1..(i - 1) : ~Test(seq[j])]
    ELSE None

\* a faulty matcher: one pass over the rows, the first row that matches a
\* concept candidate or a label keyword
FindRowSinglePass(bs, concepts, label_any_keywords) ==
    LET rows == _iter_rows(bs)
        kws == [i \in 1..Len(label_any_keywords) |-> _lower(label_any_keywords[i])]
        Hit(r) == \/ \E k \in 1..Len(concepts) : TextOf(r.concept) = concepts[k]
                  \/ \E k \in 1..Len(kws) : Contains(_lower(TextOf(r.label)), kws[k])
    IN  FirstWhere(rows, Hit)

\* find_row: concept candidates in priority order, then label keywords
find_row(bs, concepts, label_any_keywords) ==
    LET rows == _iter_rows(bs)
        kws == [i \in 1..Len(label_any_keywords) |-> _lower(label_any_keywords[i])]
        HasConcept(c) == \E i \in 1..Len(rows) : TextOf(rows[i].concept) = c
        HasAnyConcept == \E k \in 1..Len(concepts) : HasConcept(concepts[k])
        firstConcept == concepts[CHOOSE k \in 1..Len(concepts) :
                            HasConcept(concepts[k])
                            /\ \A j \in 1..(k - 1) : ~HasConcept(concepts[j])]
        LabelHit(r) == \E k \in 1..Len(kws) : Contains(_lower(TextOf(r.label)), kws[k])
    IN  IF HasAnyConcept
        THEN FirstWhere(rows, LAMBDA r : TextOf(r.concept) = firstConcept)
        ELSE IF kws # <<>> THEN FirstWhere(rows, LabelHit)
        ELSE None

\* find_row_by_concept_or_label: any concept of the candidate set, first row
\* in document order; then normalised label keywords
find_row_by_concept_or_label(bs, concept_candidates, label_keywords_any) ==
    LET rows == _iter_rows(bs)
        concept_set == {concept_candidates[i] : i \in 1..Len(concept_candidates)} \ {<<>>}
        keywords == [i \in 1..Len(label_keywords_any) |-> _norm_label(label_keywords_any[i])]
        ConceptHit(r) == TextOf(r.concept) \in concept_set
        LabelHit(r) == \E k \in 1..Len(keywords) :
                          Contains(_norm_label(TextOf(r.label)), keywords[k])
    IN  IF concept_set # {} /\ FirstWhere(rows, ConceptHit) # None
        THEN FirstWhere(rows, ConceptHit)
        ELSE IF keywords # <<>> THEN FirstWhere(rows, LabelHit)
        ELSE None

\* vals.get(period_key) of a row's values object
ValueAt(row, period_key) ==
    LET hit == FirstWhere(row.values, LAMBDA kv : kv.key = period_key)
    IN  IF hit = None THEN None ELSE hit.obj

extract_row_value_mm(row, period_key) == _to_millions(ValueAt(row, period_key))

build_provenance(row, period_key) ==
    IF row = None THEN None
    ELSE [tag |-> "dict", concept |-> row.concept, label |-> row.label,
          period_key |-> period_key, raw_value_obj |-> ValueAt(row, period_key)]

CashConcepts ==
    << <<"CashCashEquivalentsRestrictedCashAndRestrictedCashEquivalents">>,
       <<"CashAndCashEquivalentsAtCarryingValue">>,
       <<"CashAndCashEquivalents">> >>

CashKeywords ==
    << <<"cash", "and", "cash", "equivalents">>,
       <<"restricted", "cash">>,
       <<"cash", ",", "cash", "equivalents", "and", "restricted", "cash">>,
       <<"cash", "cash", "equivalents", "restricted", "cash", "and", "restricted",
         "cash", "equivalents">> >>

NciConcepts ==
    << <<"us-gaap:MinorityInterest">>, <<"us-gaap:NoncontrollingInterest">>,
       <<"us-gaap:NoncontrollingInterests">>, <<"us-gaap:NoncontrollingInterestEquity">> >>

NciKeywords ==
    << <<"noncontrolling", "interests">>, <<"non", "controlling", "interests">>,
       <<"minority", "interest">> >>

\* round(x, 3) of an optional float
RoundOpt(x) == IF x = None THEN None ELSE Float(Round3Units(x.val))

\* extract_required_balance_sheet_data: the exception it raises, if any
ExtractRaises(md) == Get(md, "annual_period") = None

\* extract_required_balance_sheet_data: the returned dict (when it returns)
extract_required_balance_sheet_data(bs, md) ==
    LET annual_period == md.annual_period.val
        sel == select_period_key_for_annual_period(bs, annual_period)
        period_key == sel[1]
        end_date == sel[2]
        cash_row == find_row(bs, CashConcepts, CashKeywords)
        cash_mm == IF cash_row # None THEN extract_row_value_mm(cash_row, period_key)
                   ELSE None
        nci_row == find_row_by_concept_or_label(bs, NciConcepts, NciKeywords)
        nci_mm == IF nci_row # None THEN extract_row_value_mm(nci_row, period_key)
                  ELSE None
        cash_mm_3 == RoundOpt(cash_mm)
        nci_mm_3 == IF nci_mm # None THEN RoundOpt(nci_mm) ELSE Float(0)
    IN  [annual_period |-> PyInt(annual_period),
         selected_period_key |-> period_key,
         selected_period_end_date |-> end_date,
         cash_and_cash_equivalents_mm |-> cash_mm_3,
         noncontrolling_interests_mm |-> nci_mm_3,
         provenance |-> [cash |-> build_provenance(cash_row, period_key),
                         noncontrolling_interests |-> build_provenance(nci_row, period_key)]]

-----------------------------------------------------------------------------
(* Ordering of strings and stable sorting *)

\* the tokens of instrument names, in the order Python compares them
TokenOrder ==
    <<"(", ")", ",", "15", "2021", "2026", "2030", "2099", "5.90%", "9",
      "AGREEMENT", "Agreement", "April", "CREDIT", "Credit", "DUE",
      "FACILITY", "Facility", "MARCH", "March", "NOTES", "Non-current",
      "Notes", "REVOLVING", "Revolving", "Secured", "Senior", "Term",
      "Total", "UNSECURED", "Unsecured", "due", "finance", "lease",
      "liabilities", "loan", "notes", "operating", "senior", "unsecured">>

TokenRank(t) == CHOOSE i \in 1..Len(TokenOrder) : TokenOrder[i] = t

\* a < b for strings
StrLess(a, b) ==
    \/ /\ Len(a) < Len(b)
       /\ \A j \in 1..Len(a) : a[j] = b[j]
    \/ \E i \in 1..Len(a) :
          /\ i <= Len(b)
          /\ TokenRank(a[i]) < TokenRank(b[i])
          /\ \A j \in 1..(i - 1) : a[j] = b[j]

\* sorted(seq, key=...): Before is the strict order of the keys; elements with
\* equal keys keep their order
SortedBy(seq, Before(_, _)) ==
    LET n == Len(seq)
        pos(i) == 1 + Cardinality({j \in 1..n :
                          \/ Before(seq[j], seq[i])
                          \/ (~Before(seq[i], seq[j]) /\ j < i)})
    IN  [k \in 1..n |-> seq[CHOOSE i \in 1..n : pos(i) = k]]

-----------------------------------------------------------------------------
(* debt_note_html_parser.py *)

\* the raw number of a table cell is a float; amounts of 10,000 or more are
\* taken to be thousands
_to_mm_if_thousands(v) ==
    IF v = None THEN None
    ELSE IF Abs(v.val) >= 10000 * UnitsPerMM THEN Float(v.val \div 1000)
    ELSE v

\* int() of the year tokens the model's names use
YearOfToken ==
    [t \in {"2026", "2030", "2099"} |->
        IF t = "2026" THEN 2026 ELSE IF t = "2030" THEN 2030 ELSE 2099]

\* _extract_maturity_year_from_name: the year of "due <Month> <d>, <yyyy>"
_extract_maturity_year_from_name(name) ==
    LET low == _lower(name)
        Hit(i) == /\ i + 4 <= Len(name)
                  /\ low[i] = "due"
                  /\ name[i + 3] = ","
                  /\ name[i + 4] \in DOMAIN YearOfToken
    IN  IF \E i \in 1..Len(name) : Hit(i)
        THEN PyInt(YearOfToken[name[(CHOOSE i \in 1..Len(name) :
                        Hit(i) /\ \A j \in 1..(i - 1) : ~Hit(j)) + 4]])
        ELSE None

_classify_instrument_type(name) ==
    LET t == _lower(name)
    IN  IF \/ Contains(t, <<"revolving">>)
           \/ Contains(t, <<"credit", "facility">>)
           \/ Contains(t, <<"credit", "agreement">>)
        THEN <<"credit_facility">>
        ELSE IF Contains(t, <<"term", "loan">>) THEN <<"term_loan">>
        ELSE IF Contains(t, <<"notes">>) THEN <<"bond">>
        ELSE <<"other_debt">>

\* the instrument of one row of the primary table: its name cell, and the
\* amount and coupon found by the scan of the cells after it
TableInstrument(row) ==
    [instrument_name |-> Str(row.name),
     amount_outstanding_mm |-> _to_mm_if_thousands(row.amount),
     amount_available_mm |-> None,
     coupon_percent |-> row.coupon,
     maturity_year |-> _extract_maturity_year_from_name(row.name),
     priority |-> IF Contains(_lower(row.name), <<"unsecured">>)
                  THEN Str(<<"Unsecured">>) ELSE None,
     instrument_type |-> Str(_classify_instrument_type(row.name)),
     provenance |-> [source |-> "table"]]

\* The text of a table cell is a token sequence; a table is a sequence of
\* rows, a row a sequence of cell texts.

\* the tokens that hold a number, with the float they parse to
NumberTokens ==
    {<<"150,000", 150000 * UnitsPerMM>>, <<"10.0015", (10 * UnitsPerMM) + 15>>,
     <<"500", 500 * UnitsPerMM>>, <<"5.90", (59 * UnitsPerMM) \div 10>>,
     <<"(2)", -2 * UnitsPerMM>>, <<"7.0005", (7 * UnitsPerMM) + 5>>,
     <<"123,456.5", (123456 * UnitsPerMM) + (UnitsPerMM \div 2)>>}

HasNumber(t) == \E p \in NumberTokens : p[1] = t
NumberOf(t) == (CHOOSE p \in NumberTokens : p[1] = t)[2]

\* _safe_float_from_text: None for an empty cell or a dash, else the first
\* number in the text
_safe_float_from_text(t) ==
    IF t = <<>> \/ t \in {<<"-">>, <<"--">>} THEN None
    ELSE IF \E i \in 1..Len(t) : HasNumber(t[i])
         THEN Float(NumberOf(t[CHOOSE i \in 1..Len(t) :
                        HasNumber(t[i]) /\ \A j \in 1..(i - 1) : ~HasNumber(t[j])]))
         ELSE None

\* the number of "due <Month> <d>, <yyyy>" in a text
DueDateCount(text) ==
    Cardinality({i \in 1..Len(text) :
        /\ i + 4 <= Len(text)
        /\ LowerTok(text[i]) = "due"
        /\ text[i + 3] = ","
        /\ text[i + 4] \in DOMAIN YearOfToken})

RECURSIVE JoinTexts(_)
JoinTexts(texts) == IF texts = <<>> THEN <<>> ELSE Head(texts) \o JoinTexts(Tail(texts))

\* score_table: the due dates in the text of the whole table
score_table(tab) ==
    DueDateCount(JoinTexts([r \in 1..Len(tab) |-> JoinTexts(tab[r])]))

\* a faulty choice: among the tables with the highest score, the last one
LastBestTable(tables) ==
    CHOOSE i \in 1..Len(tables) :
        /\ \A j \in 1..Len(tables) : score_table(tables[j]) <= score_table(tables[i])
        /\ \A j \in (i + 1)..Len(tables) : score_table(tables[j]) < score_table(tables[i])

\* scored.sort(reverse=True, key=score)[0]: the sort is stable, so among the
\* tables with the highest score the first one (its position, from 1)
BestTable(tables) ==
    CHOOSE i \in 1..Len(tables) :
        /\ \A j \in 1..Len(tables) : score_table(tables[j]) <= score_table(tables[i])
        /\ \A j \in 1..(i - 1) : score_table(tables[j]) < score_table(tables[i])

\* the position of the name cell: the first cell with a due date (0: none)
NameIndex(cell_texts) ==
    IF \E k \in 1..Len(cell_texts) : DueDateCount(cell_texts[k]) > 0
    THEN CHOOSE k \in 1..Len(cell_texts) :
            /\ DueDateCount(cell_texts[k]) > 0
            /\ \A j \in 1..(k - 1) : DueDateCount(cell_texts[j]) = 0
    ELSE 0

\* the forward scan for amount and coupon, from cell k on; st holds the
\* amount and the coupon found so far and the cells they came from
RECURSIVE ScanCells(_, _, _)
ScanCells(cell_texts, k, st) ==
    IF k > Len(cell_texts) THEN st
    ELSE
        LET t == cell_texts[k]
            f == _safe_float_from_text(t)
        IN  IF st.amount = None /\ f # None
            THEN ScanCells(cell_texts, k + 1, [st EXCEPT !.amount = f, !.amount_idx = k])
            ELSE IF t = <<>> THEN ScanCells(cell_texts, k + 1, st)
            ELSE IF _lower(t) = <<"variable">>
                 THEN [st EXCEPT !.coupon = Str(<<"variable">>), !.coupon_idx = k]
            ELSE IF f # None /\ 0 < f.val /\ f.val < 100 * UnitsPerMM
                 THEN [st EXCEPT !.coupon = f, !.coupon_idx = k]
            ELSE ScanCells(cell_texts, k + 1, st)

\* one row of the primary table that has a name cell: the name, and the
\* amount and coupon the scan of the cells after it finds
TableRowOf(cell_texts) ==
    LET st == ScanCells(cell_texts, NameIndex(cell_texts) + 1,
                        [amount |-> None, amount_idx |-> 0, coupon |-> None, coupon_idx |-> 0])
    IN  [name |-> cell_texts[NameIndex(cell_texts)], amount |-> st.amount,
         coupon |-> st.coupon, amount_idx |-> st.amount_idx, coupon_idx |-> st.coupon_idx]

\* _extract_instruments_from_primary_table: the index of the table it
\* selects (None: no table selected) and the instruments of its rows
_extract_instruments_from_primary_table(tables) ==
    IF tables = <<>> THEN [best_idx |-> None, instruments |-> <<>>]
    ELSE IF score_table(tables[BestTable(tables)]) = 0
         THEN [best_idx |-> None, instruments |-> <<>>]
    ELSE
        LET best == tables[BestTable(tables)]
            named == SelectSeq(best, LAMBDA cells : NameIndex(cells) > 0)
        IN  [best_idx |-> PyInt(BestTable(tables) - 1),
             instruments |-> [r \in 1..Len(named) |-> TableInstrument(TableRowOf(named[r]))]]

\* str.title() of the captured "secured" / "unsecured"
Title(w) == IF w = "secured" THEN "Secured" ELSE "Unsecured"

\* the instrument of one narrative match: the captured secured/unsecured word
\* (None when the group did not take part), the agreement name and the
\* latest maturity year found for that agreement
NarrativeFacility(m) ==
    LET sec_unsec == IF m.sec_unsec = None THEN "unsecured" ELSE m.sec_unsec.val[1]
    IN  [instrument_name |->
             Str(<<Title(sec_unsec), "Revolving", "Credit", "Facility", "(">>
                 \o m.agreement \o <<")">>),
         amount_outstanding_mm |-> Float(0),
         amount_available_mm |-> None,
         coupon_percent |-> Str(<<"variable">>),
         maturity_year |-> m.maturity_year,
         priority |-> Str(<<Title(sec_unsec)>>),
         instrument_type |-> Str(<<"credit_facility">>),
         provenance |-> [source |-> "narrative"]]

\* a faulty merge: the names compared as they are, not lower-cased
RECURSIVE AppendMissingExact(_, _, _)
AppendMissingExact(instruments, facilities, existing_names) ==
    IF facilities = <<>> THEN instruments
    ELSE IF \E i \in 1..Len(instruments) :
                instruments[i].instrument_name = Head(facilities).instrument_name
         THEN AppendMissingExact(instruments, Tail(facilities), existing_names)
         ELSE AppendMissingExact(Append(instruments, Head(facilities)), Tail(facilities),
                                 existing_names)

\* the narrative facilities whose name no table instrument has, in order
RECURSIVE AppendMissing(_, _, _)
AppendMissing(instruments, facilities, existing_names) ==
    IF facilities = <<>> THEN instruments
    ELSE IF _lower(Head(facilities).instrument_name.val) \in existing_names
         THEN AppendMissing(instruments, Tail(facilities), existing_names)
         ELSE AppendMissing(Append(instruments, Head(facilities)), Tail(facilities),
                            existing_names)

DebtSortBefore(a, b) ==
    LET ya == IF a.maturity_year.tag = "int" THEN a.maturity_year.val ELSE 9999
        yb == IF b.maturity_year.tag = "int" THEN b.maturity_year.val ELSE 9999
    IN  \/ ya < yb
        \/ ya = yb /\ StrLess(a.instrument_name.val, b.instrument_name.val)

\* parse_debt_note_html: the "instruments" of its result
parse_debt_note_html(note) ==
    LET table == [i \in 1..Len(note.table_rows) |-> TableInstrument(note.table_rows[i])]
        narrative_facilities ==
            [i \in 1..Len(note.facilities) |-> NarrativeFacility(note.facilities[i])]
        existing_names == {_lower(table[i].instrument_name.val) : i \in 1..Len(table)}
    IN  SortedBy(AppendMissing(table, narrative_facilities, existing_names), DebtSortBefore)

-----------------------------------------------------------------------------
(* lease_note_html_parser.py *)

\* a faulty scaler: a raw amount of exactly 10,000 left unscaled
LeaseScalerAboveOnly(raw) ==
    IF Abs(raw.val) > 10000 * UnitsPerMM THEN Float(raw.val \div 1000) ELSE raw

\* raw amounts of 10,000 or more are taken to be thousands
_to_mm_from_lease_table(raw) ==
    IF Abs(raw.val) >= 10000 * UnitsPerMM THEN Float(raw.val \div 1000) ELSE raw

\* TARGETS: the pretty name and the lease type of each canonical label
TARGETS ==
    << [pretty |-> <<"Total", "operating", "lease", "liabilities">>,
        typ |-> <<"operating_lease">>],
       [pretty |-> <<"Non-current", "operating", "lease", "liabilities">>,
        typ |-> <<"operating_lease">>],
       [pretty |-> <<"Total", "finance", "lease", "liabilities">>,
        typ |-> <<"finance_lease">>],
       [pretty |-> <<"Non-current", "finance", "lease", "liabilities">>,
        typ |-> <<"finance_lease">>] >>

\* TARGETS: the normalised key of each canonical label
TargetKeys ==
    << <<"total", "operating", "lease", "liabilities">>,
       <<"non", "current", "operating", "lease", "liabilities">>,
       <<"total", "finance", "lease", "liabilities">>,
       <<"non", "current", "finance", "lease", "liabilities">> >>

\* _norm: lower case, every character that is neither a word character nor
\* a space turned into a space.  The table holds the tokens whose normal
\* form is not their lower case.
NormTable ==
    {<<"Non-current", <<"non", "current">>>>, <<"$", <<>>>>, <<"-", <<>>>>,
     <<"(2)", <<"2">>>>, <<"7.0005", <<"7", "0005">>>>,
     <<"123,456.5", <<"123", "456", "5">>>>}

NormTok(t) ==
    IF \E p \in NormTable : p[1] = t
    THEN (CHOOSE p \in NormTable : p[1] = t)[2]
    ELSE <<LowerTok(t)>>

_norm(s) == JoinTexts([i \in 1..Len(s) |-> NormTok(s[i])])

\* _match_target: the first target whose key is the first cell or the first
\* two cells joined, normalised; 0 when there is none
_match_target(row) ==
    IF row = <<>> THEN 0
    ELSE LET c0 == _norm(row[1])
             c1 == IF Len(row) > 1 THEN _norm(row[2]) ELSE <<>>
             hits == {t \in 1..Len(TARGETS) : TargetKeys[t] \in {c0, c0 \o c1}}
         IN  IF hits = {} THEN 0 ELSE CHOOSE t \in hits : \A u \in hits : t <= u

\* _parse_number: None for an empty cell or a dash; else the "$" dropped, and
\* the number the rest spells, None when it spells none
_parse_number(cell) ==
    LET t == SelectSeq(cell, LAMBDA x : x # "$")
    IN  IF cell = <<>> \/ cell = <<"-">> THEN None
        ELSE IF Len(t) = 1 /\ HasNumber(t[1]) THEN Float(NumberOf(t[1]))
        ELSE None

\* a faulty search: the first numeric cell, whatever stands before it
FirstAmountAnyCell(row) ==
    LET hits == {i \in 1..Len(row) : _parse_number(row[i]) # None}
    IN  IF hits = {} THEN [v |-> None, idx |-> None]
        ELSE LET i == CHOOSE i \in hits : \A j \in hits : i <= j
             IN  [v |-> _parse_number(row[i]), idx |-> PyInt(i - 1)]

\* _first_amount_after_dollar: value and 0-based index of the first numeric
\* cell that stands right after a "$" cell
_first_amount_after_dollar(row) ==
    LET hits == {i \in 1..(Len(row) - 1) :
                    row[i] = <<"$">> /\ _parse_number(row[i + 1]) # None}
    IN  IF hits = {} THEN [v |-> None, idx |-> None]
        ELSE LET i == CHOOSE i \in hits : \A j \in hits : i <= j
             IN  [v |-> _parse_number(row[i + 1]), idx |-> PyInt(i)]

\* parse_lease_note_html: the fallback, the last numeric cell of the row
LastNumeric(row) ==
    LET hits == {i \in 1..Len(row) : _parse_number(row[i]) # None}
    IN  IF hits = {} THEN [v |-> None, idx |-> None]
        ELSE LET i == CHOOSE i \in hits : \A j \in hits : j <= i
             IN  [v |-> _parse_number(row[i]), idx |-> PyInt(i - 1)]

\* parse_lease_note_html: raw and used_idx of a matched row
RowAmount(row) ==
    LET a == _first_amount_after_dollar(row)
    IN  IF a.v # None THEN a ELSE LastNumeric(row)

\* the instrument of one matched row: the target it matched, its raw amount
LeaseInstrument(row) ==
    [instrument_name |-> Str(TARGETS[row.target].pretty),
     amount_outstanding_mm |-> RoundOpt(_to_mm_from_lease_table(row.raw)),
     amount_available_mm |-> None,
     coupon_percent |-> None,
     maturity_year |-> Str(<<"Various">>),
     priority |-> Str(<<"Senior", "Secured">>),
     instrument_type |-> Str(TARGETS[row.target].typ),
     provenance |-> [table_index |-> row.table_index]]

LeaseKey(ins) == <<ins.instrument_name, ins.amount_outstanding_mm, ins.instrument_type>>

\* a faulty pass: of the instruments with one key the last is kept
DedupeKeepLast(instruments) ==
    SelectSeq([i \in 1..Len(instruments) |->
                  [ins |-> instruments[i],
                   dup |-> \E j \in (i + 1)..Len(instruments) :
                              LeaseKey(instruments[j]) = LeaseKey(instruments[i])]],
              LAMBDA e : ~e.dup)

\* drop every instrument whose key an earlier one has
Dedupe(instruments) ==
    SelectSeq([i \in 1..Len(instruments) |->
                  [ins |-> instruments[i],
                   dup |-> \E j \in 1..(i - 1) :
                              LeaseKey(instruments[j]) = LeaseKey(instruments[i])]],
              LAMBDA e : ~e.dup)

\* parse_lease_note_html: the instruments one row of table ti appends
LeaseRowInstruments(row, ti) ==
    LET hit == _match_target(row)
        a == RowAmount(row)
    IN  IF hit = 0 \/ a.v = None THEN <<>>
        ELSE <<LeaseInstrument([target |-> hit, raw |-> a.v, table_index |-> ti])>>

\* parse_lease_note_html: the "instruments" of its result
parse_lease_note_html(note) ==
    LET instruments == [i \in 1..Len(note) |-> LeaseInstrument(note[i])]
        deduped == Dedupe(instruments)
    IN  [i \in 1..Len(deduped) |-> deduped[i].ins]

-----------------------------------------------------------------------------
(* capital_structure_builder.py *)

_MONTHS ==
    <<"January", "February", "March", "April", "May", "June",
      "July", "August", "September", "October", "November", "December">>

\* "2024-12-28" -> "December 28, 2024"
iso_to_long_date(iso) ==
    Str(<<_MONTHS[iso.val[2]], iso.val[3], ",", iso.val[1]>>)

round3(x) == IF x = None THEN None ELSE Float(Round3Units(FloatOf(x)))

RECURSIVE SumFloats(_)
SumFloats(instruments) ==
    IF instruments = <<>> THEN 0
    ELSE (IF Head(instruments).amount_outstanding_mm = None THEN 0
          ELSE FloatOf(Head(instruments).amount_outstanding_mm))
         + SumFloats(Tail(instruments))

sum_amounts(instruments) == Float(Round3Units(SumFloats(instruments)))

\* a faulty grouping key: the "or 'Unsecured'" default dropped, so an
\* instrument without a priority is filed under a key no group is made for
GroupKeyNoDefault(ins) == IF Truthy(ins.priority) THEN ins.priority.val ELSE <<"None">>

\* the key group_by_priority files an instrument under
GroupKey(ins) == IF Truthy(ins.priority) THEN ins.priority.val ELSE <<"Unsecured">>

\* group_by_priority: the list filed under priority p (empty: p is not a key)
group_by_priority(instruments, p) == SelectSeq(instruments, LAMBDA ins : GroupKey(ins) = p)

normalize_instrument_amounts(instruments) ==
    [i \in 1..Len(instruments) |->
        [instruments[i] EXCEPT !.amount_outstanding_mm = round3(@),
                               !.amount_available_mm = round3(@)]]

\* a faulty key: the revolver placed by its maturity like the rest
UnsecuredKeyMaturityOnly(inst) ==
    IF inst.maturity_year.tag = "int" THEN <<1, inst.maturity_year.val>>
    ELSE <<1, 9999>>

\* unsecured_sort_key, a pair of integers
unsecured_sort_key(inst) ==
    IF Contains(inst.instrument_name.val, <<"Revolving", "Credit", "Facility">>)
    THEN <<0, 0>>
    ELSE IF inst.maturity_year.tag = "int" THEN <<1, inst.maturity_year.val>>
    ELSE <<1, 9999>>

UnsecuredBefore(a, b) == TupleLess(unsecured_sort_key(a), unsecured_sort_key(b))

\* the priorities the builder makes a group for, in display order
DisplayPriorities == << <<"Senior", "Secured">>, <<"Unsecured">>, <<"Subordinated">> >>

\* a faulty entry: the subtotal summed over all instruments, not the group's
PriorityGroupTotalAsSubtotal(all_instruments, priority) ==
    LET insts0 == group_by_priority(all_instruments, priority)
        insts == IF priority = <<"Unsecured">> THEN SortedBy(insts0, UnsecuredBefore)
                 ELSE insts0
    IN  [priority |-> Str(priority),
         instruments |-> insts,
         subtotal |-> [subtotal_outstanding_mm |-> sum_amounts(all_instruments)]]

\* one entry of priority_groups
PriorityGroup(all_instruments, priority) ==
    LET insts0 == group_by_priority(all_instruments, priority)
        insts == IF priority = <<"Unsecured">> THEN SortedBy(insts0, UnsecuredBefore)
                 ELSE insts0
    IN  [priority |-> Str(priority),
         instruments |-> insts,
         subtotal |-> [subtotal_outstanding_mm |-> sum_amounts(insts)]]

\* a faulty loop: a group made for a priority no instrument has
PriorityGroupsKeepEmpty(all_instruments) ==
    [k \in 1..Len(DisplayPriorities) |->
        PriorityGroup(all_instruments, DisplayPriorities[k])]

PriorityGroups(all_instruments) ==
    LET groups == [k \in 1..Len(DisplayPriorities) |->
                      PriorityGroup(all_instruments, DisplayPriorities[k])]
    IN  SelectSeq(groups, LAMBDA g : g.instruments # <<>>)

\* x or 0.0
OrZero(x) == IF Truthy(x) THEN x ELSE Float(0)

\* the cash figure the builder works with and states
BuilderCash(bs) == OrZero(round3(bs.cash_and_cash_equivalents_mm))

\* a faulty net debt: cash added instead of subtracted
BuilderNetDebtPlusCash(total_debt_mm, cash_mm) ==
    Float(Round3Units(total_debt_mm.val + cash_mm.val))

\* the net debt the builder states: round3(total_debt_mm - cash_mm)
BuilderNetDebt(total_debt_mm, cash_mm) ==
    Float(Round3Units(total_debt_mm.val - cash_mm.val))

\* the enterprise value the builder states
BuilderEV(net_debt_mm, nci_mm, market_cap_mm) ==
    Float(Round3Units(net_debt_mm.val + nci_mm.val + FloatOf(market_cap_mm)))

\* the stated market cap
BuilderMarketCap(market_cap_mm) ==
    IF market_cap_mm # None THEN round3(market_cap_mm) ELSE Float(0)

\* the exception build_capital_structure raises on these inputs ("none": returns)
BuildError(bs_json, md, market_cap_mm) ==
    IF ExtractRaises(md) THEN "ValueError: annual_period"
    ELSE IF ~Truthy(extract_required_balance_sheet_data(bs_json, md).selected_period_end_date)
         THEN "ValueError: selected_period_end_date"
    ELSE IF ~IsNumber(market_cap_mm) THEN "TypeError: float(market_cap_mm)"
    ELSE "none"

\* build_capital_structure: the returned document (when it returns)
build_capital_structure(bs_json, debt_note, lease_note, md, market_cap_mm) ==
    LET bs == extract_required_balance_sheet_data(bs_json, md)
        iso_end == bs.selected_period_end_date
        debt_instruments == normalize_instrument_amounts(parse_debt_note_html(debt_note))
        lease0 == normalize_instrument_amounts(parse_lease_note_html(lease_note))
        lease_instruments ==
            [i \in 1..Len(lease0) |->
                [lease0[i] EXCEPT !.priority = Str(<<"Senior", "Secured">>)]]
        all_instruments == lease_instruments \o debt_instruments
        total_debt_mm == sum_amounts(all_instruments)
        cash_mm == BuilderCash(bs)
        nci_mm == OrZero(round3(bs.noncontrolling_interests_mm))
        net_debt_mm == BuilderNetDebt(total_debt_mm, cash_mm)
    IN  [annual_period |-> bs.annual_period,
         period_end_date_text |-> iso_to_long_date(iso_end),
         selected_period_end_date |-> iso_end,
         issuer_groups |-> << [priority_groups |-> PriorityGroups(all_instruments)] >>,
         total_debt_mm |-> total_debt_mm,
         cash_mm |-> cash_mm,
         net_debt_mm |-> net_debt_mm,
         noncontrolling_interests_mm |-> nci_mm,
         market_cap_mm |-> BuilderMarketCap(market_cap_mm),
         enterprise_value_mm |-> BuilderEV(net_debt_mm, nci_mm, market_cap_mm),
         provenance |-> [balance_sheet |-> bs.provenance]]

-----------------------------------------------------------------------------
(* bonus.py *)

\* bonus._safe_float: float(x), None when x is None or float() raises
bonus_safe_float(x) == IF IsNumber(x) THEN Float(FloatOf(x)) ELSE None

\* _find_value: the first of the keys that holds a number
_find_value(doc, keys) ==
    LET Hit(k) == bonus_safe_float(Get(doc, keys[k])) # None
    IN  IF \E k \in 1..Len(keys) : Hit(k)
        THEN bonus_safe_float(Get(doc, keys[CHOOSE k \in 1..Len(keys) :
                                  Hit(k) /\ \A j \in 1..(k - 1) : ~Hit(j)]))
        ELSE None

\* built.get("instruments") or []
DocInstruments(doc) ==
    IF "instruments" \in DOMAIN doc THEN doc["instruments"] ELSE <<>>

\* the amount _sum_instrument_outstanding adds for one instrument
InstrumentAmount(inst) ==
    IF bonus_safe_float(Get(inst, "amount_outstanding_mm")) # None
    THEN bonus_safe_float(Get(inst, "amount_outstanding_mm"))
    ELSE bonus_safe_float(Get(inst, "amount_outstanding"))

RECURSIVE SumOutstanding(_)
SumOutstanding(instruments) ==
    IF instruments = <<>> THEN 0
    ELSE (IF InstrumentAmount(Head(instruments)) = None THEN 0
          ELSE InstrumentAmount(Head(instruments)).val)
         + SumOutstanding(Tail(instruments))

_sum_instrument_outstanding(doc) == SumOutstanding(DocInstruments(doc))

\* the tolerances 0.05 and 0.5
TolPass == (5 * UnitsPerMM) \div 100
TolWarn == (5 * UnitsPerMM) \div 10

\* faulty tiers: the two boundaries excluded
TierStrict(delta) ==
    IF delta < TolPass THEN "pass"
    ELSE IF delta < TolWarn THEN "warn"
    ELSE "fail"

\* the status of an arithmetic check with absolute difference delta
Tier(delta) ==
    IF delta <= TolPass THEN "pass"
    ELSE IF delta <= TolWarn THEN "warn"
    ELSE "fail"

ArithCheck(cid, delta) ==
    [id |-> cid, status |-> Tier(delta), message |-> "compared",
     delta |-> Float(Round3Units(delta))]

\* a faulty skipped check: a missing operand reported as a failure
SkippedCheckFails(cid) == [id |-> cid, status |-> "fail", message |-> "skipped"]

\* the check appended when an operand is missing
SkippedCheck(cid) == [id |-> cid, status |-> "warn", message |-> "skipped"]

\* int(str(maturity)): the year, or None when int() raises
MaturityInt(maturity) ==
    IF maturity.tag = "int" THEN maturity
    ELSE IF maturity.tag = "str" /\ Len(maturity.val) = 1
            /\ maturity.val[1] \in DOMAIN YearOfToken
         THEN PyInt(YearOfToken[maturity.val[1]])
    ELSE None

\* whether the maturity of inst ends the scan with a sanity_maturity warning
SuspiciousMaturity(inst) ==
    LET maturity == Get(inst, "maturity")
    IN  /\ maturity # None
        /\ maturity # Str(<<>>)
        /\ MaturityInt(maturity) # None
        /\ (MaturityInt(maturity).val < 1990 \/ MaturityInt(maturity).val > 2100)

\* a faulty test: an instrument counted only when name and priority both lack
MissingBothFields(inst) ==
    ~Truthy(Get(inst, "instrument_name")) /\ Get(inst, "priority") = None

\* whether the completeness scan counts inst as missing a required field
MissingField(inst) ==
    ~Truthy(Get(inst, "instrument_name")) \/ Get(inst, "priority") = None

NegativeAmount(inst) ==
    LET amt == bonus_safe_float(Get(inst, "amount_outstanding_mm"))
    IN  amt # None /\ amt.val < 0

\* the instruments the sanity loop visits: up to and including the first one
\* with a suspicious maturity year (the loop breaks there)
Scanned(instruments) ==
    IF \E i \in 1..Len(instruments) : SuspiciousMaturity(instruments[i])
    THEN SubSeq(instruments, 1,
                CHOOSE i \in 1..Len(instruments) :
                    /\ SuspiciousMaturity(instruments[i])
                    /\ \A j \in 1..(i - 1) : ~SuspiciousMaturity(instruments[j]))
    ELSE instruments

CountWhere(seq, Test(_)) == Cardinality({i \in 1..Len(seq) : Test(seq[i])})

CompletenessCheck(missing_fields) ==
    [id |-> "completeness",
     status |-> IF missing_fields = 0 THEN "pass" ELSE "warn",
     message |-> "name/priority"]

NegativeCheck(neg_amounts) ==
    [id |-> "sanity_negative_amounts",
     status |-> IF neg_amounts = 0 THEN "pass" ELSE "fail",
     message |-> "negative amounts"]

\* faulty penalties: a warning costs 10
PenaltyWarnTen(status) == IF status = "fail" THEN 20 ELSE IF status = "warn" THEN 10 ELSE 0

\* the penalty of one check: 20 per fail, 5 per warn
Penalty(status) == IF status = "fail" THEN 20 ELSE IF status = "warn" THEN 5 ELSE 0

RECURSIVE TotalPenalty(_)
TotalPenalty(checks) ==
    IF checks = <<>> THEN 0
    ELSE Penalty(Head(checks).status) + TotalPenalty(Tail(checks))

Max(a, b) == IF a >= b THEN a ELSE b
Min(a, b) == IF a <= b THEN a ELSE b

Score(checks) == Max(0, Min(100, 100 - TotalPenalty(checks)))

run_self_assessment(doc) ==
    LET total_debt == _find_value(doc, <<"total_debt_mm", "total_debt">>)
        cash == _find_value(doc, <<"cash_and_cash_equivalents_mm", "cash_mm",
                                   "cash_and_cash_equivalents">>)
        nci == _find_value(doc, <<"noncontrolling_interests_mm", "nci_mm",
                                  "noncontrolling_interests">>)
        market_cap == _find_value(doc, <<"market_cap_mm", "market_cap">>)
        net_debt == _find_value(doc, <<"net_debt_mm", "net_debt">>)
        ev == _find_value(doc, <<"enterprise_value_mm", "enterprise_value">>)
        sum_inst == _sum_instrument_outstanding(doc)
        c1 == IF total_debt # None
              THEN ArithCheck("arith_total_debt", Abs(total_debt.val - sum_inst))
              ELSE SkippedCheck("arith_total_debt")
        c2 == IF total_debt # None /\ cash # None /\ net_debt # None
              THEN ArithCheck("arith_net_debt",
                              Abs(net_debt.val - (total_debt.val - cash.val)))
              ELSE SkippedCheck("arith_net_debt")
        c3 == IF ev # None /\ net_debt # None /\ nci # None /\ market_cap # None
              THEN ArithCheck("arith_enterprise_value",
                              Abs(ev.val - (net_debt.val + nci.val + market_cap.val)))
              ELSE SkippedCheck("arith_enterprise_value")
        instruments == DocInstruments(doc)
        scanned == Scanned(instruments)
        maturity == IF Len(scanned) > 0 /\ SuspiciousMaturity(scanned[Len(scanned)])
                    THEN << [id |-> "sanity_maturity", status |-> "warn",
                             message |-> "suspicious maturity year"] >>
                    ELSE <<>>
        checks == <<c1, c2, c3>> \o maturity
                  \o << CompletenessCheck(CountWhere(scanned, MissingField)),
                        NegativeCheck(CountWhere(scanned, NegativeAmount)) >>
    IN  [score |-> Score(checks), checks |-> checks]

-----------------------------------------------------------------------------
(* Inputs *)

\* longest primary debt table, longest lease table and longest instrument
\* list of a loaded document that the model explores
MaxTableRows == 1
MaxLeaseRows == 1
MaxDocInstruments == 2

\* all sequences over S of length at most n
SeqsUpTo(S, n) == UNION {[1..k -> S] : k \in 0..n}

Amount(mm, frac) == Float((mm * UnitsPerMM) + frac)

MetadataDocs == {[annual_period |-> None], [annual_period |-> PyInt(2024)]}

ColFY2024 ==
    [key |-> "FY2024", fiscal_year |-> PyInt(2024), fiscal_quarter |-> PyInt(4),
     period_type |-> Str(<<"instant">>), end_date |-> Str(<<2024, 12, 28>>)]
ColFY2024NoEnd == [ColFY2024 EXCEPT !.key = "FY2024x", !.end_date = None]
ColFY2023 ==
    [key |-> "FY2023", fiscal_year |-> PyInt(2023), fiscal_quarter |-> PyInt(4),
     period_type |-> Str(<<"instant">>), end_date |-> Str(<<2023, 12, 30>>)]

ColumnLists == {<<>>, <<ColFY2024>>, <<ColFY2024NoEnd>>, <<ColFY2023, ColFY2024>>}

\* cash found by concept, its value a number of dollars
CashRowConcept ==
    [concept |-> Str(<<"CashAndCashEquivalentsAtCarryingValue">>),
     label |-> Str(<<"Cash", "and", "cash", "equivalents">>),
     values |-> << [key |-> "FY2024", obj |-> ValueObj(PyInt(120500), None, None)] >>]
\* cash found by label, its value a display value in millions
CashRowLabel ==
    [concept |-> Str(<<"us-gaap:CashAndCashEquivalentsAtCarryingValue">>),
     label |-> Str(<<"Cash", "and", "cash", "equivalents">>),
     values |-> << [key |-> "FY2023", obj |-> ValueObj(None, Amount(9, 0), PyInt(6))],
                   [key |-> "FY2024", obj |-> ValueObj(None, Amount(10, 15), PyInt(6))] >>]
\* a cash row with no value for fiscal 2024
CashRowOtherPeriod ==
    [CashRowLabel EXCEPT !.values =
        << [key |-> "FY2023", obj |-> ValueObj(None, Amount(9, 0), PyInt(6))] >>]
NciRow ==
    [concept |-> Str(<<"us-gaap:MinorityInterest">>),
     label |-> Str(<<"Noncontrolling", "interests">>),
     values |-> << [key |-> "FY2024", obj |-> ValueObj(None, Amount(0, 10), PyInt(6))] >>]
AssetsRow ==
    [concept |-> Str(<<"us-gaap:Assets">>),
     label |-> Str(<<"Total", "assets">>),
     values |-> << [key |-> "FY2024", obj |-> ValueObj(PyInt(200000), None, None)] >>]

RowLists ==
    {<<>>, <<AssetsRow>>, <<CashRowConcept>>, <<CashRowOtherPeriod, NciRow>>,
     <<AssetsRow, CashRowLabel, NciRow>>}

BalanceSheets == {[columns |-> c, rows |-> r] : c \in ColumnLists, r \in RowLists}

\* market-cap arguments: absent, 0.0625 and 2592.0
MarketCaps == {None, Amount(0, 625), Amount(2592, 0)}

NoteUnsecured2026 ==
    <<"5.90%", "senior", "unsecured", "notes", "due", "March", "9", ",", "2026">>
NoteSenior2030 == <<"Senior", "Notes", "due", "April", "15", ",", "2030">>

\* rows of the primary table: the name cell, the raw amount (none, 10.0015,
\* 150,000 and -2), the coupon
TableRows ==
    {[name |-> n, amount |-> a, coupon |-> Amount(5, 9000)] :
        n \in {NoteUnsecured2026, NoteSenior2030},
        a \in {None, Amount(10, 15), Amount(150000, 0), Amount(-2, 0)}}

\* narrative matches of the credit-facility pattern
FacilityUnsecured ==
    [sec_unsec |-> Str(<<"unsecured">>), agreement |-> <<"2021", "Credit", "Agreement">>,
     maturity_year |-> PyInt(2026)]
FacilitySecured == [FacilityUnsecured EXCEPT !.sec_unsec = Str(<<"secured">>)]
FacilityPlain ==
    [FacilityUnsecured EXCEPT !.sec_unsec = None, !.maturity_year = None]

FacilityLists ==
    {<<>>, <<FacilityUnsecured>>, <<FacilitySecured>>, <<FacilitySecured, FacilityPlain>>}

DebtNotes ==
    {[table_rows |-> t, facilities |-> f] :
        t \in SeqsUpTo(TableRows, MaxTableRows), f \in FacilityLists}

\* matched rows of the lease tables: raw amounts 123,456.5 and 7.0005
LeaseRows ==
    {[target |-> 1, raw |-> Amount(123456, 5000), table_index |-> 0],
     [target |-> 3, raw |-> Amount(7, 5), table_index |-> 0]}

LeaseNotes == SeqsUpTo(LeaseRows, MaxLeaseRows)

\* the arguments of a build call.  The first set varies the two notes, the
\* market cap and the rows over a balance sheet with one fiscal-2024 column;
\* the second varies the metadata, the columns, the rows and the market cap
\* over two debt notes.
BuildInputs ==
    {[md |-> [annual_period |-> PyInt(2024)],
      bs |-> [columns |-> <<ColFY2024>>, rows |-> r], mc |-> mc, dn |-> dn, ln |-> ln] :
        r \in RowLists, mc \in MarketCaps \ {None}, dn \in DebtNotes, ln \in LeaseNotes}
    \cup
    {[md |-> md, bs |-> bs, mc |-> mc, dn |-> dn, ln |-> <<>>] :
        md \in MetadataDocs, bs \in BalanceSheets, mc \in MarketCaps,
        dn \in {[table_rows |-> <<>>, facilities |-> f] : f \in {<<>>, <<FacilitySecured>>}}}

\* instruments of documents put together by another assembler
DocInstrument(name, priority, amount, maturity) ==
    [instrument_name |-> name, priority |-> priority,
     amount_outstanding_mm |-> amount, maturity |-> maturity]

TermLoan == Str(<<"Term", "Loan">>)
Unsecured == Str(<<"Unsecured">>)

ForeignInstruments ==
    {DocInstrument(TermLoan, Unsecured, Amount(100, 0), PyInt(2030)),
     DocInstrument(None, Unsecured, Amount(0, 0), None),
     DocInstrument(TermLoan, None, Amount(0, 0), Str(<<"Various">>)),
     DocInstrument(Str(<<>>), None, None, Str(<<>>)),
     DocInstrument(TermLoan, Unsecured, Amount(-10, 0), PyInt(2030)),
     DocInstrument(TermLoan, Unsecured, Amount(0, 0), PyInt(1800)),
     DocInstrument(TermLoan, Unsecured, Amount(0, 0), Str(<<"2099">>))}

\* the differences the stated figures are off by: 0, 0.05, 0.0501, 0.5,
\* 0.5001 and 3.0, either way
Offsets ==
    {0, TolPass, TolPass + 1, TolWarn, TolWarn + 1, 3 * UnitsPerMM,
     -TolPass, -(TolPass + 1), -TolWarn, -(TolWarn + 1)}

NotANumber == Str(<<"n/a">>)

\* a document with a top-level instrument list and the six figures; a figure
\* that is None is left out of the document
ForeignDoc(instruments, total, cash, net, nci, mcap, ev) ==
    LET all == [instruments |-> instruments, total_debt_mm |-> total, cash_mm |-> cash,
                net_debt_mm |-> net, noncontrolling_interests_mm |-> nci,
                market_cap_mm |-> mcap, enterprise_value_mm |-> ev]
        keys == {"instruments"} \cup {k \in DOMAIN all \ {"instruments"} : all[k] # None}
    IN  [k \in keys |-> all[k]]

\* documents that differ in the instrument list and the stated total debt
DocsByInstruments ==
    {ForeignDoc(ins, t, Amount(10, 0), Amount(90, 0), Amount(5, 0), Amount(1000, 0),
                Amount(1095, 0)) :
        ins \in SeqsUpTo(ForeignInstruments, MaxDocInstruments),
        t \in {None, NotANumber} \cup {Amount(100, d) : d \in Offsets}}

\* documents that differ in the figures of the net-debt and the
\* enterprise-value identities
DocsByFigures ==
    {ForeignDoc(<<>>, t, c, n, i, m, e) :
        t \in {None, Amount(100, 0)},
        c \in {None, NotANumber, Amount(10, 0)},
        n \in {None} \cup {Amount(90, d) : d \in Offsets},
        i \in {None, Amount(5, 0)},
        m \in {None, Amount(1000, 0)},
        e \in {NotANumber} \cup {Amount(1095, d) : d \in Offsets}}

\* documents that state a figure under the alternative key
DocsByAlias ==
    {[instruments |-> <<>>, total_debt |-> Amount(100, 0),
      cash_and_cash_equivalents |-> Amount(10, 0), net_debt |-> n] :
        n \in {Amount(90, 0), Amount(95, 0)}}
    \cup
    {[instruments |-> <<>>, total_debt_mm |-> NotANumber, total_debt |-> Amount(100, 0),
      cash_mm |-> Amount(10, 0), net_debt_mm |-> n] :
        n \in {Amount(90, 0), Amount(95, 0)}}

ForeignDocs == DocsByInstruments \cup DocsByFigures \cup DocsByAlias

-----------------------------------------------------------------------------
(* The pipeline *)

Init ==
    /\ metadata = None
    /\ balance_sheet = None
    /\ debt_note_html = None
    /\ lease_note_html = None
    /\ market_cap_arg = None
    /\ built = None
    /\ origin = "none"
    /\ error = "none"
    /\ report = None
    /\ pc = "idle"
    /\ call = [fn |-> "none"]
    /\ result = None
    /\ _jobs = <<>>
    /\ threads = <<>>
    /\ _sema = MAX_CONCURRENT_JOBS
    /\ posts = <<>>
    /\ request = [pc |-> "idle"]

\* one call of build_capital_structure that returns a document
BuildReturns ==
    /\ pc = "idle"
    /\ \E inp \in BuildInputs :
          /\ BuildError(inp.bs, inp.md, inp.mc) = "none"
          /\ metadata' = inp.md
          /\ balance_sheet' = inp.bs
          /\ debt_note_html' = inp.dn
          /\ lease_note_html' = inp.ln
          /\ market_cap_arg' = inp.mc
          /\ built' = build_capital_structure(inp.bs, inp.dn, inp.ln, inp.md, inp.mc)
    /\ origin' = "builder"
    /\ error' = "none"
    /\ pc' = "built"
    /\ UNCHANGED <<report, call, result, server>>

\* one call of build_capital_structure that raises
BuildRaises ==
    /\ pc = "idle"
    /\ \E inp \in BuildInputs :
          /\ BuildError(inp.bs, inp.md, inp.mc) # "none"
          /\ metadata' = inp.md
          /\ balance_sheet' = inp.bs
          /\ debt_note_html' = inp.dn
          /\ lease_note_html' = inp.ln
          /\ market_cap_arg' = inp.mc
          /\ error' = BuildError(inp.bs, inp.md, inp.mc)
    /\ pc' = "failed"
    /\ UNCHANGED <<built, origin, report, call, result, server>>

\* a document of another assembler is read
LoadDocument ==
    /\ pc = "idle"
    /\ \E doc \in ForeignDocs : built' = doc
    /\ origin' = "foreign"
    /\ pc' = "loaded"
    /\ UNCHANGED <<metadata, balance_sheet, debt_note_html, lease_note_html, market_cap_arg, error, report,
                   call, result, server>>

\* run_self_assessment on the document
Assess ==
    /\ pc \in {"built", "loaded"}
    /\ report' = run_self_assessment(built)
    /\ pc' = "assessed"
    /\ UNCHANGED <<metadata, balance_sheet, debt_note_html, lease_note_html, market_cap_arg, built, origin,
                   error, call, result, server>>

Next == BuildReturns \/ BuildRaises \/ LoadDocument \/ Assess

Spec == Init /\ [][Next]_vars

-----------------------------------------------------------------------------
(* Properties *)

\* a document build_capital_structure returned is in `built`
HasBuiltDoc == origin = "builder" /\ pc \in {"built", "assessed"}

RECURSIVE Flatten(_)
Flatten(seqs) == IF seqs = <<>> THEN <<>> ELSE Head(seqs) \o Flatten(Tail(seqs))

\* the instruments under issuer_groups -> priority_groups -> instruments
NestedInstruments(doc) ==
    Flatten([i \in 1..Len(doc.issuer_groups) |->
        Flatten([g \in 1..Len(doc.issuer_groups[i].priority_groups) |->
            doc.issuer_groups[i].priority_groups[g].instruments])])

\* the instruments the two parsers hand to the builder for the current notes
ParsedDebt == parse_debt_note_html(debt_note_html)
ParsedLease == parse_lease_note_html(lease_note_html)

CanonicalPriorities == {Str(DisplayPriorities[k]) : k \in 1..Len(DisplayPriorities)}

\* the check of the report with the given id
CheckOf(rep, cid) ==
    rep.checks[CHOOSE i \in 1..Len(rep.checks) : rep.checks[i].id = cid]

HasCheck(rep, cid) == \E i \in 1..Len(rep.checks) : rep.checks[i].id = cid

\* C1: in every document build_capital_structure returns, total_debt_mm is
\* within 0.001 of the sum of the non-null amount_outstanding_mm of the
\* instruments under issuer_groups -> priority_groups -> instruments.
C1_TotalDebtIsSumOfGroupedInstruments ==
    HasBuiltDoc =>
        Abs(built.total_debt_mm.val - SumFloats(NestedInstruments(built))) <= UnitsPerMilli

\* C1 witness: a document built from a lease instrument, a table instrument
\* with an amount and a narrative facility whose priority ("Secured") is none
\* of the three groups, with a non-zero total.
C1_Witness ==
    /\ HasBuiltDoc
    /\ Len(ParsedLease) > 0
    /\ \E i \in 1..Len(ParsedDebt) :
          /\ ParsedDebt[i].provenance.source = "table"
          /\ ParsedDebt[i].amount_outstanding_mm # None
    /\ \E i \in 1..Len(ParsedDebt) :
          /\ ParsedDebt[i].provenance.source = "narrative"
          /\ ParsedDebt[i].priority \notin CanonicalPriorities
    /\ built.total_debt_mm.val > 0

\* C2: in every document build_capital_structure returns, the stated
\* net_debt_mm is the stated total_debt_mm minus the stated cash_mm.
C2_NetDebtIdentity ==
    HasBuiltDoc => built.net_debt_mm.val = built.total_debt_mm.val - built.cash_mm.val

\* C2 witness: a built document with instruments and a cash figure.
C2_Witness ==
    /\ HasBuiltDoc
    /\ built.total_debt_mm.val > 0
    /\ built.cash_mm.val > 0

\* C3: in every document build_capital_structure returns, the stated
\* enterprise_value_mm is the stated net_debt_mm plus the stated
\* noncontrolling_interests_mm plus the stated market_cap_mm.
C3_EnterpriseValueIdentity ==
    HasBuiltDoc =>
        built.enterprise_value_mm.val =
            built.net_debt_mm.val + built.noncontrolling_interests_mm.val
                + built.market_cap_mm.val

\* the cash figure extract_required_balance_sheet_data returns for the inputs
ExtractedCash ==
    extract_required_balance_sheet_data(balance_sheet, metadata).cash_and_cash_equivalents_mm

\* C4: when the balance sheet yields no cash figure, cash_mm of the built
\* document is null and the net-debt check of run_self_assessment is a
\* skipped check with status warn.
C4_MissingCashStaysNull ==
    (HasBuiltDoc /\ ExtractedCash = None) =>
        /\ built.cash_mm = None
        /\ pc = "assessed" => CheckOf(report, "arith_net_debt") = SkippedCheck("arith_net_debt")

\* C5: on every document build_capital_structure returns, the
\* arith_total_debt check of run_self_assessment is pass.
C5_TotalDebtCheckPassesOnBuiltDocs ==
    (HasBuiltDoc /\ pc = "assessed") =>
        CheckOf(report, "arith_total_debt").status = "pass"

\* the inputs of the last build call lack annual_period or a period end date
MissingPeriod ==
    \/ Get(metadata, "annual_period") = None
    \/ ~Truthy(select_period_key_for_annual_period(
                   balance_sheet, metadata.annual_period.val)[2])

\* C6: build_capital_structure raises if and only if the metadata lacks
\* annual_period or the selected period has no end date.
C6_RaisesOnlyWithoutPeriod ==
    (pc = "failed" \/ HasBuiltDoc) => (pc = "failed" <=> MissingPeriod)

\* the keys run_self_assessment reads each figure from
TotalDebtKeys == <<"total_debt_mm", "total_debt">>
CashKeys == <<"cash_and_cash_equivalents_mm", "cash_mm", "cash_and_cash_equivalents">>
NciKeys == <<"noncontrolling_interests_mm", "nci_mm", "noncontrolling_interests">>
MarketCapKeys == <<"market_cap_mm", "market_cap">>
NetDebtKeys == <<"net_debt_mm", "net_debt">>
EVKeys == <<"enterprise_value_mm", "enterprise_value">>

\* the figure is absent from the document, or no number, under each of its keys
Missing(doc, keys) ==
    \A i \in 1..Len(keys) :
        keys[i] \notin DOMAIN doc \/ doc[keys[i]].tag \notin {"float", "int"}

\* the first number the document holds under the keys
Figure(doc, keys) ==
    FloatOf(doc[keys[CHOOSE i \in 1..Len(keys) :
                    /\ ~Missing(doc, <<keys[i]>>)
                    /\ \A j \in 1..(i - 1) : Missing(doc, <<keys[j]>>)]])

\* stated value minus recomputed value, for each of the three identities
TotalDebtDelta(doc) ==
    Figure(doc, TotalDebtKeys) - SumOutstanding(DocInstruments(doc))
NetDebtDelta(doc) ==
    Figure(doc, NetDebtKeys) - (Figure(doc, TotalDebtKeys) - Figure(doc, CashKeys))
EVDelta(doc) ==
    Figure(doc, EVKeys)
        - (Figure(doc, NetDebtKeys) + Figure(doc, NciKeys) + Figure(doc, MarketCapKeys))

TotalDebtOperandMissing(doc) == Missing(doc, TotalDebtKeys)
NetDebtOperandMissing(doc) ==
    Missing(doc, TotalDebtKeys) \/ Missing(doc, CashKeys) \/ Missing(doc, NetDebtKeys)
EVOperandMissing(doc) ==
    \/ Missing(doc, EVKeys) \/ Missing(doc, NetDebtKeys)
    \/ Missing(doc, NciKeys) \/ Missing(doc, MarketCapKeys)

\* status is the tier of delta: pass up to 0.05, warn up to 0.5, fail beyond
InTier(status, delta) ==
    /\ status = "pass" <=> Abs(delta) * 100 <= 5 * UnitsPerMM
    /\ status = "warn" <=> (Abs(delta) * 100 > 5 * UnitsPerMM /\ Abs(delta) * 10 <= 5 * UnitsPerMM)
    /\ status = "fail" <=> Abs(delta) * 10 > 5 * UnitsPerMM

\* C7: each of the three arithmetic checks whose operands are all present has
\* status pass iff |delta| <= 0.05, warn iff 0.05 < |delta| <= 0.5 and fail
\* iff |delta| > 0.5, delta being the stated minus the recomputed value.
C7_ToleranceTiers ==
    pc = "assessed" =>
        /\ ~TotalDebtOperandMissing(built) =>
              InTier(CheckOf(report, "arith_total_debt").status, TotalDebtDelta(built))
        /\ ~NetDebtOperandMissing(built) =>
              InTier(CheckOf(report, "arith_net_debt").status, NetDebtDelta(built))
        /\ ~EVOperandMissing(built) =>
              InTier(CheckOf(report, "arith_enterprise_value").status, EVDelta(built))

\* C7 witness: an assessed document with all operands present whose net debt
\* is off by exactly 0.05 (pass), whose enterprise value is off by more than
\* 0.05 and at most 0.5 (warn) and whose total debt is off by more than 0.5
\* (fail).
C7_Witness ==
    /\ pc = "assessed"
    /\ ~TotalDebtOperandMissing(built)
    /\ ~NetDebtOperandMissing(built)
    /\ ~EVOperandMissing(built)
    /\ Abs(NetDebtDelta(built)) = TolPass
    /\ CheckOf(report, "arith_net_debt").status = "pass"
    /\ CheckOf(report, "arith_enterprise_value").status = "warn"
    /\ CheckOf(report, "arith_total_debt").status = "fail"

\* C8: an arithmetic check with an operand missing from the document (absent
\* or not a number) has status warn, never fail, and run_self_assessment
\* returns a report with a score and the three arithmetic checks for such a
\* document.
C8_MissingOperandWarns ==
    pc = "assessed" =>
        /\ report.score \in 0..100
        /\ HasCheck(report, "arith_total_debt")
        /\ HasCheck(report, "arith_net_debt")
        /\ HasCheck(report, "arith_enterprise_value")
        /\ TotalDebtOperandMissing(built) =>
              CheckOf(report, "arith_total_debt").status = "warn"
        /\ NetDebtOperandMissing(built) =>
              CheckOf(report, "arith_net_debt").status = "warn"
        /\ EVOperandMissing(built) =>
              CheckOf(report, "arith_enterprise_value").status = "warn"

\* C8 witness: an assessed document whose cash is text that is no number and
\* whose enterprise value is absent, the other figures being present.
C8_Witness ==
    /\ pc = "assessed"
    /\ "cash_mm" \in DOMAIN built
    /\ built["cash_mm"] = NotANumber
    /\ ~Missing(built, TotalDebtKeys)
    /\ ~Missing(built, NetDebtKeys)
    /\ Missing(built, MarketCapKeys)
    /\ CheckOf(report, "arith_net_debt").status = "warn"
    /\ CheckOf(report, "arith_enterprise_value").status = "warn"

\* number of checks of the report with the given status
StatusCount(rep, status) ==
    Cardinality({i \in 1..Len(rep.checks) : rep.checks[i].status = status})

\* C9: the score is max(0, min(100, 100 - 20*F - 5*W)), F and W being the
\* numbers of fail and warn checks of the report, an integer in 0..100.
C9_ScoreFormula ==
    pc = "assessed" =>
        LET F == StatusCount(report, "fail")
            W == StatusCount(report, "warn")
            raw == 100 - (20 * F) - (5 * W)
        IN  /\ report.score = (IF raw < 0 THEN 0 ELSE IF raw > 100 THEN 100 ELSE raw)
            /\ report.score \in 0..100

\* C9 witness: a report with at least two fail checks and two warn checks.
C9_Witness ==
    /\ pc = "assessed"
    /\ StatusCount(report, "fail") >= 2
    /\ StatusCount(report, "warn") >= 2

\* the instruments the sanity loop of run_self_assessment visits
ScannedInstruments == Scanned(DocInstruments(built))

NameMissing(inst) ==
    "instrument_name" \notin DOMAIN inst
        \/ inst.instrument_name = None \/ inst.instrument_name = Str(<<>>)
PriorityMissing(inst) == "priority" \notin DOMAIN inst \/ inst.priority = None

\* C10 as stated: the completeness check is warn if and only if a scanned
\* instrument is missing both its name and its priority.
C10_WarnIffBothMissing ==
    pc = "assessed" =>
        (CheckOf(report, "completeness").status = "warn"
            <=> \E i \in 1..Len(ScannedInstruments) :
                    NameMissing(ScannedInstruments[i]) /\ PriorityMissing(ScannedInstruments[i]))

\* C10 amended: the completeness check is warn if and only if a scanned
\* instrument is missing its name or its priority; one of the two suffices.
C10_WarnIffEitherMissing ==
    pc = "assessed" =>
        (CheckOf(report, "completeness").status = "warn"
            <=> \E i \in 1..Len(ScannedInstruments) :
                    NameMissing(ScannedInstruments[i]) \/ PriorityMissing(ScannedInstruments[i]))

\* C10 witness: an assessed document in which an instrument lacks only its
\* priority, no instrument lacks both fields, and the check is warn.
C10_Witness ==
    /\ pc = "assessed"
    /\ \E i \in 1..Len(ScannedInstruments) :
          ~NameMissing(ScannedInstruments[i]) /\ PriorityMissing(ScannedInstruments[i])
    /\ \A i \in 1..Len(ScannedInstruments) :
          ~(NameMissing(ScannedInstruments[i]) /\ PriorityMissing(ScannedInstruments[i]))
    /\ CheckOf(report, "completeness").status = "warn"

\* C11: every instrument of the assessed document with a negative
\* amount_outstanding_mm makes the sanity_negative_amounts check fail,
\* wherever it stands in the list and whatever the maturities before it.
C11_NegativeAmountAlwaysFails ==
    pc = "assessed" =>
        ((\E i \in 1..Len(DocInstruments(built)) : NegativeAmount(DocInstruments(built)[i]))
            => CheckOf(report, "sanity_negative_amounts").status = "fail")

-----------------------------------------------------------------------------
(* Direct calls of the parsers' functions *)

\* the pipeline's variables, which a direct call leaves alone
pipeline ==
    <<metadata, balance_sheet, debt_note_html, lease_note_html, market_cap_arg, built, origin,
      error, report, pc>>

\* longest column list of a balance sheet handed to the period selection
MaxColumns == 2

\* the keys of the columns, by position
KeyNames == <<"c1", "c2", "c3", "c4">>

\* what a column says about its period: fiscal 2024 columns of every kind,
\* and one fiscal 2023 column
PeriodAttrs ==
    {[fiscal_year |-> PyInt(2024), fiscal_quarter |-> fq, period_type |-> pt, end_date |-> ed] :
        fq \in {PyInt(4), PyInt(2)},
        pt \in {Str(<<"instant">>), Str(<<"Instant">>), Str(<<"duration">>)},
        ed \in {None, Str(<<2024, 9, 28>>), Str(<<2024, 12, 28>>)}}
    \cup
    {[fiscal_year |-> PyInt(2023), fiscal_quarter |-> PyInt(4),
      period_type |-> Str(<<"instant">>), end_date |-> Str(<<2023, 12, 30>>)]}

\* the balance sheet whose columns say `attrs`, keyed by position, without rows
ColumnsOnly(attrs) ==
    [columns |-> [i \in 1..Len(attrs) |->
                     [key |-> KeyNames[i], fiscal_year |-> attrs[i].fiscal_year,
                      fiscal_quarter |-> attrs[i].fiscal_quarter,
                      period_type |-> attrs[i].period_type, end_date |-> attrs[i].end_date]],
     rows |-> <<>>]

\* select_period_key_for_annual_period(balance_sheet, 2024)
CallSelectPeriod ==
    /\ call.fn = "none"
    /\ \E attrs \in SeqsUpTo(PeriodAttrs, MaxColumns) :
          /\ call' = [fn |-> "select_period_key_for_annual_period",
                      bs |-> ColumnsOnly(attrs), annual_period |-> 2024]
          /\ result' = select_period_key_for_annual_period(ColumnsOnly(attrs), 2024)
    /\ UNCHANGED <<pipeline, server>>

\* the columns of the call's balance sheet for the requested fiscal year
CallCandidates ==
    SelectSeq(call.bs.columns, LAMBDA c : c.fiscal_year = PyInt(call.annual_period))

IsQ4(p) == p.fiscal_quarter = PyInt(4)
IsInstant(p) == p.period_type \in {Str(<<"instant">>), Str(<<"Instant">>)}
EndKey(p) == IF p.end_date = None THEN 0 ELSE DateKey(p.end_date)

\* a ranks below b in the order (fourth quarter, instant, end date)
RanksBelow(a, b) ==
    \/ ~IsQ4(a) /\ IsQ4(b)
    \/ IsQ4(a) = IsQ4(b) /\ ~IsInstant(a) /\ IsInstant(b)
    \/ IsQ4(a) = IsQ4(b) /\ IsInstant(a) = IsInstant(b) /\ EndKey(a) < EndKey(b)

MaxMatchRows == 2

\* a row that matches the first cash concept candidate
CashRowCombined ==
    [concept |-> Str(<<"CashCashEquivalentsRestrictedCashAndRestrictedCashEquivalents">>),
     label |-> Str(<<"Cash", ",", "cash", "equivalents", "and", "restricted", "cash">>),
     values |-> <<>>]
\* a row that matches the second NCI concept candidate, and one that matches
\* an NCI label keyword only
NciRowSecond ==
    [concept |-> Str(<<"us-gaap:NoncontrollingInterest">>),
     label |-> Str(<<"Noncontrolling", "interests">>), values |-> <<>>]
NciRowLabel ==
    [concept |-> Str(<<"us-gaap:StockholdersEquityOther">>),
     label |-> Str(<<"Noncontrolling", "interests">>), values |-> <<>>]

MatcherRows ==
    {CashRowCombined, CashRowConcept, CashRowLabel, NciRow, NciRowSecond, NciRowLabel,
     AssetsRow}

\* the candidate lists the extractor calls the matchers with
MatcherLists ==
    {[concepts |-> CashConcepts, keywords |-> CashKeywords],
     [concepts |-> NciConcepts, keywords |-> NciKeywords]}

\* find_row(balance_sheet, concepts, label_any_keywords)
CallFindRow ==
    /\ call.fn = "none"
    /\ \E rows \in SeqsUpTo(MatcherRows, MaxMatchRows), l \in MatcherLists :
          LET bs == [columns |-> <<>>, rows |-> rows]
          IN  /\ call' = [fn |-> "find_row", bs |-> bs, concepts |-> l.concepts,
                          keywords |-> l.keywords]
              /\ result' = find_row(bs, l.concepts, l.keywords)
    /\ UNCHANGED <<pipeline, server>>

\* find_row_by_concept_or_label(balance_sheet, concept_candidates, label_keywords_any)
CallFindRowByConceptOrLabel ==
    /\ call.fn = "none"
    /\ \E rows \in SeqsUpTo(MatcherRows, MaxMatchRows), l \in MatcherLists :
          LET bs == [columns |-> <<>>, rows |-> rows]
          IN  /\ call' = [fn |-> "find_row_by_concept_or_label", bs |-> bs,
                          concepts |-> l.concepts, keywords |-> l.keywords]
              /\ result' = find_row_by_concept_or_label(bs, l.concepts, l.keywords)
    /\ UNCHANGED <<pipeline, server>>

MatcherCall == call.fn \in {"find_row", "find_row_by_concept_or_label"}

\* the positions in the call's candidate list of the concepts some row has
CandidatesPresent ==
    {k \in 1..Len(call.concepts) :
        \E i \in 1..Len(call.bs.rows) : call.bs.rows[i].concept = Str(call.concepts[k])}

\* whether the concept of r is one of the call's candidates
IsConceptRow(r) == \E k \in 1..Len(call.concepts) : r.concept = Str(call.concepts[k])

\* C13: for both row matchers, when a row's concept is one of the concept
\* candidates the returned row is a row of the balance sheet whose concept is
\* a candidate, whatever label-matching rows come before it; a row whose
\* concept is no candidate is returned only when no row has a candidate concept.
C13_ConceptBeforeLabel ==
    MatcherCall =>
        /\ CandidatesPresent # {} => (result # None /\ IsConceptRow(result))
        /\ result # None => \E i \in 1..Len(call.bs.rows) : call.bs.rows[i] = result
        /\ (result # None /\ ~IsConceptRow(result)) => CandidatesPresent = {}

\* C13 witness: find_row on two rows, the first matching a label keyword
\* only, the second with a candidate concept, which is returned.
C13_Witness ==
    /\ MatcherCall
    /\ call.fn = "find_row"
    /\ call.bs.rows = <<CashRowLabel, CashRowConcept>>
    /\ call.concepts = CashConcepts
    /\ result = CashRowConcept

\* C14: for both row matchers, when rows match different concept candidates
\* the returned row has the concept of the candidate that comes first in the
\* candidate list, whatever the order of the rows.
C14_EarliestCandidateWins ==
    (MatcherCall /\ CandidatesPresent # {}) =>
        \A k \in CandidatesPresent :
            (\A j \in CandidatesPresent : k <= j) => result.concept = Str(call.concepts[k])

\* value objects: numeric_value absent, a dash, 120,500 or -3,000 dollars;
\* display_value absent, a dash, 0.1205, 120.5, 120,500.0, -3.0 or -3,000.0;
\* scale absent, 0, 3, 6 or text; and two values that are no objects
ValueObjects ==
    {ValueObj(nv, dv, scale) :
        nv \in {None, Str(<<"-">>), PyInt(120500), PyInt(-3000)},
        dv \in {None, Str(<<"-">>), Float(1205), Float(1205000), Float(1205000000),
                Float(-30000), Float(-30000000)},
        scale \in {None, PyInt(0), PyInt(3), PyInt(6), Str(<<"x">>)}}
    \cup {None, Float(1205)}

\* _to_millions(value_obj)
CallToMillions ==
    /\ call.fn = "none"
    /\ \E obj \in ValueObjects :
          /\ call' = [fn |-> "_to_millions", value_obj |-> obj]
          /\ result' = _to_millions(obj)
    /\ UNCHANGED <<pipeline, server>>

\* the scale the call's value object states, 6 when it states none
StatedScale == IF call.value_obj.scale.tag = "int" THEN call.value_obj.scale.val ELSE 6

\* numeric_value = display_value * 10^scale in the call's value object
FormsAgree ==
    /\ IsNumber(call.value_obj.numeric_value)
    /\ IsNumber(call.value_obj.display_value)
    /\ FloatOf(call.value_obj.numeric_value) % Pow10(StatedScale) = 0
    /\ FloatOf(call.value_obj.numeric_value) \div Pow10(StatedScale)
           = FloatOf(call.value_obj.display_value)

\* C15: _to_millions returns numeric_value / 1e6 when numeric_value is a
\* number, whatever display_value and scale are; otherwise display_value *
\* 10^(scale - 6), the scale being 6 when none is stated; null when neither
\* is a number or the value is no object; and when numeric_value =
\* display_value * 10^scale the result is the one the display form gives.
C15_ToMillionsForms ==
    call.fn = "_to_millions" =>
        IF call.value_obj.tag # "dict" THEN result = None
        ELSE
            LET nv == call.value_obj.numeric_value
                dv == call.value_obj.display_value
            IN  /\ IsNumber(nv) => result = Float(FloatOf(nv) \div 1000000)
                /\ (~IsNumber(nv) /\ IsNumber(dv)) =>
                       result = Float(IF StatedScale >= 6
                                      THEN FloatOf(dv) * Pow10(StatedScale - 6)
                                      ELSE FloatOf(dv) \div Pow10(6 - StatedScale))
                /\ (~IsNumber(nv) /\ ~IsNumber(dv)) => result = None
                /\ FormsAgree =>
                       result = _to_millions([call.value_obj EXCEPT !.numeric_value = None])

\* C15 witness: numeric_value 120,500 with display_value 120.5 in thousands
\* (scale 3), converted to 0.1205.
C15_Witness ==
    /\ call.fn = "_to_millions"
    /\ call.value_obj = ValueObj(PyInt(120500), Float(1205000), PyInt(3))
    /\ FormsAgree
    /\ result = Float(1205)

\* most tables of a debt note, and most cells after the name cell of a row
MaxTables == 2
MaxCells == 3

RowUnsecured2026 == <<NoteUnsecured2026, <<"150,000">>, <<"5.90">>>>
RowSenior2030 == <<NoteSenior2030, <<"10.0015">>, <<"variable">>>>
HeaderRow == << <<"Instrument">>, <<"Amount">>, <<"Rate">> >>

\* tables with no, one, one and two due dates
DebtTables ==
    {<<HeaderRow, << <<"Total">>, <<"500">> >> >>,
     <<HeaderRow, RowUnsecured2026>>,
     <<RowSenior2030>>,
     <<RowUnsecured2026, RowSenior2030>>}

\* _extract_instruments_from_primary_table(soup)
CallPrimaryTable ==
    /\ call.fn = "none"
    /\ \E tables \in SeqsUpTo(DebtTables, MaxTables) :
          /\ call' = [fn |-> "_extract_instruments_from_primary_table", tables |-> tables]
          /\ result' = _extract_instruments_from_primary_table(tables)
    /\ UNCHANGED <<pipeline, server>>

\* the texts of the cells after the name cell: empty, "variable" in two
\* spellings, a dash, and the numbers 500, 5.90 and 150,000
ScanCellTexts ==
    {<<>>, <<"variable">>, <<"Variable">>, <<"-">>, <<"500">>, <<"5.90">>, <<"150,000">>}

\* the forward scan of one instrument row of the primary table
CallScanRow ==
    /\ call.fn = "none"
    /\ \E cells \in SeqsUpTo(ScanCellTexts, MaxCells) :
          /\ call' = [fn |-> "scan_row", cell_texts |-> <<NoteSenior2030>> \o cells]
          /\ result' = TableRowOf(<<NoteSenior2030>> \o cells)
    /\ UNCHANGED <<pipeline, server>>

\* the due dates in table i of the call
CallScore(i) == score_table(call.tables[i])

\* C16: the table phase parses the table with the most due dates, the first
\* of them in document order when several have the most; when no table has a
\* due date (or there is no table) it returns no instruments.
C16_PrimaryTableChoice ==
    call.fn = "_extract_instruments_from_primary_table" =>
        IF \A i \in 1..Len(call.tables) : CallScore(i) = 0
        THEN result.best_idx = None /\ result.instruments = <<>>
        ELSE \E i \in 1..Len(call.tables) :
                /\ result.best_idx = PyInt(i - 1)
                /\ \A j \in 1..Len(call.tables) : CallScore(j) <= CallScore(i)
                /\ \A j \in 1..(i - 1) : CallScore(j) < CallScore(i)
                /\ Len(result.instruments) = CallScore(i)
                /\ \A r \in 1..Len(result.instruments) :
                      \E q \in 1..Len(call.tables[i]) :
                          call.tables[i][q][1] = result.instruments[r].instrument_name.val

\* C16 witness: two different tables with one due date each; the first is
\* parsed.
C16_Witness ==
    /\ call.fn = "_extract_instruments_from_primary_table"
    /\ Len(call.tables) = 2
    /\ call.tables[1] # call.tables[2]
    /\ CallScore(1) = 1 /\ CallScore(2) = 1
    /\ result.best_idx = PyInt(0)
    /\ result.instruments[1].instrument_name.val = call.tables[1][Len(call.tables[1])][1]

\* the positions after the name cell of the cells that hold a number
NumericCells ==
    {k \in 2..Len(call.cell_texts) : _safe_float_from_text(call.cell_texts[k]) # None}

\* C17: the amount of an instrument row is the first numeric cell after the
\* name cell, and a coupon is taken only from a cell after the amount's cell:
\* a row with a coupon has an amount, found to the left of the coupon.
C17_CouponOnlyAfterAmount ==
    call.fn = "scan_row" =>
        /\ \A k \in NumericCells :
              (\A j \in NumericCells : k <= j) =>
                  result.amount = _safe_float_from_text(call.cell_texts[k])
        /\ result.coupon # None =>
              (result.amount # None /\ result.amount_idx < result.coupon_idx)

\* raw amounts: 0, 7.0005, 9,999.9999, 10,000, 123,456.5, 150,000 and the
\* negative amounts -2, -9,999.9999, -10,000 and -20,000.5
RawAmounts ==
    {Amount(0, 0), Amount(7, 5), Amount(9999, 9999), Amount(10000, 0), Amount(123456, 5000),
     Amount(150000, 0), Amount(-2, 0), Amount(-9999, -9999), Amount(-10000, 0),
     Amount(-20000, -5000)}

\* _to_mm_if_thousands(raw) and _to_mm_from_lease_table(raw) on the same number
CallScalers ==
    /\ call.fn = "none"
    /\ \E raw \in RawAmounts :
          /\ call' = [fn |-> "scalers", raw |-> raw]
          /\ result' = [debt |-> _to_mm_if_thousands(raw),
                        lease |-> _to_mm_from_lease_table(raw)]
    /\ UNCHANGED <<pipeline, server>>

\* C18: the debt scaler and the lease scaler both return raw / 1000 when
\* |raw| >= 10,000 and raw itself when |raw| < 10,000.
C18_ScalersAgree ==
    call.fn = "scalers" =>
        LET expected == IF call.raw.val >= 10000 * UnitsPerMM
                           \/ call.raw.val <= -(10000 * UnitsPerMM)
                        THEN Float(call.raw.val \div 1000)
                        ELSE call.raw
        IN  result.debt = expected /\ result.lease = expected

\* C18 witness: a raw amount of exactly 10,000 becomes 10.0 in both.
C18_Witness ==
    /\ call.fn = "scalers"
    /\ call.raw = Amount(10000, 0)
    /\ result.debt = Amount(10, 0)
    /\ result.lease = Amount(10, 0)

\* most narrative facilities of a debt note
MaxFacilities == 2

\* a facility whose agreement name holds a due date, and a table row whose
\* name is that facility's name in upper case
FacilityDue ==
    [sec_unsec |-> Str(<<"unsecured">>),
     agreement |-> <<"Notes", "due", "March", "9", ",", "2026", "Credit", "Agreement">>,
     maturity_year |-> None]
RowFacilityUpper ==
    [name |-> <<"UNSECURED", "REVOLVING", "CREDIT", "FACILITY", "(", "NOTES", "DUE",
                "MARCH", "9", ",", "2026", "CREDIT", "AGREEMENT", ")">>,
     amount |-> Amount(500, 0), coupon |-> Str(<<"variable">>)]
RowNote2026 ==
    [name |-> NoteUnsecured2026, amount |-> Amount(10, 15), coupon |-> Amount(5, 9000)]

\* parse_debt_note_html(html_path)
CallParseDebtNote ==
    /\ call.fn = "none"
    /\ \E t \in SeqsUpTo({RowNote2026, RowFacilityUpper}, MaxTableRows),
          f \in SeqsUpTo({FacilityUnsecured, FacilitySecured, FacilityDue}, MaxFacilities) :
          /\ call' = [fn |-> "parse_debt_note_html",
                      note |-> [table_rows |-> t, facilities |-> f]]
          /\ result' = parse_debt_note_html([table_rows |-> t, facilities |-> f])
    /\ UNCHANGED <<pipeline, server>>

\* the instruments of the call's table rows and of its narrative matches
CallTable == [i \in 1..Len(call.note.table_rows) |-> TableInstrument(call.note.table_rows[i])]
CallFacilities ==
    [i \in 1..Len(call.note.facilities) |-> NarrativeFacility(call.note.facilities[i])]

Occurrences(seq, x) == Cardinality({i \in 1..Len(seq) : seq[i] = x})

\* a table instrument has the name of f, letter case aside
NameInTable(f) ==
    \E i \in 1..Len(CallTable) :
        _lower(CallTable[i].instrument_name.val) = _lower(f.instrument_name.val)

\* C19: a narrative facility is in the output of parse_debt_note_html if and
\* only if no table instrument has its name compared case-insensitively;
\* every narrative facility in the output has amount 0.0 and coupon
\* "variable"; every table instrument is in the output, unchanged.
C19_NarrativeOnlyIfNew ==
    call.fn = "parse_debt_note_html" =>
        /\ \A i \in 1..Len(CallFacilities) :
              Occurrences(result, CallFacilities[i]) > 0 <=> ~NameInTable(CallFacilities[i])
        /\ \A i \in 1..Len(result) :
              result[i].provenance.source = "narrative" =>
                  /\ result[i].amount_outstanding_mm = Float(0)
                  /\ result[i].coupon_percent = Str(<<"variable">>)
                  /\ Occurrences(CallFacilities, result[i]) > 0
        /\ \A i \in 1..Len(CallTable) :
              Occurrences(result, CallTable[i]) = Occurrences(CallTable, CallTable[i])
        /\ Cardinality({i \in 1..Len(result) : result[i].provenance.source = "table"})
               = Len(CallTable)

\* C19 witness: the table has the upper-case row, the narrative has the
\* facility of that name and another one; only the other one is added.
C19_Witness ==
    /\ call.fn = "parse_debt_note_html"
    /\ call.note.table_rows = <<RowFacilityUpper>>
    /\ call.note.facilities = <<FacilityDue, FacilitySecured>>
    /\ Len(result) = 2
    /\ Occurrences(result, NarrativeFacility(FacilityDue)) = 0
    /\ Occurrences(result, NarrativeFacility(FacilitySecured)) = 1

\* the first cell of a lease-table row, and the cells after it
LeaseLabels ==
    {<<"Total", "operating", "lease", "liabilities">>,
     <<"Non-current", "finance", "lease", "liabilities">>,
     <<"Total", "operating">>}
LeaseCells ==
    {<<"$">>, <<"500">>, <<"123,456.5">>, <<"(2)">>, <<"-">>, <<>>,
     <<"$", "7.0005">>, <<"lease", "liabilities">>}

\* parse_lease_note_html on one row of the first lease table
CallLeaseRow ==
    /\ call.fn = "none"
    /\ \E label \in LeaseLabels, cells \in SeqsUpTo(LeaseCells, MaxCells) :
          /\ call' = [fn |-> "lease_row", row |-> <<label>> \o cells]
          /\ result' = [hit |-> _match_target(<<label>> \o cells),
                        amount |-> RowAmount(<<label>> \o cells),
                        instruments |-> LeaseRowInstruments(<<label>> \o cells, 0)]
    /\ UNCHANGED <<pipeline, server>>

\* the positions of the numeric cells of the call's row, and of those that
\* stand right after a "$" cell
NumericAt == {i \in 1..Len(call.row) : _parse_number(call.row[i]) # None}
AfterDollarAt == {i \in NumericAt : i > 1 /\ call.row[i - 1] = <<"$">>}

\* C20: for a row that matches a lease target, the raw amount is the first
\* numeric cell standing right after a "$" cell; only when the row has no
\* such cell is it the last numeric cell of the row; a matched row with no
\* numeric cell gives no instrument, any other gives one with that amount.
C20_LeaseRowAmount ==
    (call.fn = "lease_row" /\ result.hit # 0) =>
        /\ AfterDollarAt # {} =>
              \E i \in AfterDollarAt :
                  /\ \A j \in AfterDollarAt : i <= j
                  /\ result.amount = [v |-> _parse_number(call.row[i]), idx |-> PyInt(i - 1)]
        /\ (AfterDollarAt = {} /\ NumericAt # {}) =>
              \E i \in NumericAt :
                  /\ \A j \in NumericAt : j <= i
                  /\ result.amount = [v |-> _parse_number(call.row[i]), idx |-> PyInt(i - 1)]
        /\ NumericAt = {} => result.instruments = <<>>
        /\ NumericAt # {} =>
              /\ Len(result.instruments) = 1
              /\ result.instruments[1].amount_outstanding_mm
                     = RoundOpt(_to_mm_from_lease_table(result.amount.v))

\* C20 witness: a numeric cell stands before a "$" cell and its number; the
\* number after the "$" is the raw amount.
C20_Witness ==
    /\ call.fn = "lease_row"
    /\ call.row = << <<"Total", "operating", "lease", "liabilities">>,
                     <<"500">>, <<"$">>, <<"123,456.5">> >>
    /\ result.hit = 1
    /\ result.amount = [v |-> Amount(123456, 5000), idx |-> PyInt(3)]
    /\ Len(result.instruments) = 1

\* most matched rows of a lease note
MaxNoteRows == 3

\* matched rows of two lease tables; the raw amounts 7.0001 and 7.0004 both
\* round to 7.0
MatchedLeaseRows ==
    {[target |-> t, raw |-> r, table_index |-> ti] :
        t \in {1, 3}, r \in {Amount(7, 1), Amount(7, 4)}, ti \in {0, 1}}

\* parse_lease_note_html(lease_note_html_path, period_end_date_text)
CallParseLeaseNote ==
    /\ call.fn = "none"
    /\ \E note \in SeqsUpTo(MatchedLeaseRows, MaxNoteRows) :
          /\ call' = [fn |-> "parse_lease_note_html", note |-> note]
          /\ result' = parse_lease_note_html(note)
    /\ UNCHANGED <<pipeline, server>>

\* the instruments of the call's matched rows, in table and row order, and
\* the positions of those whose key no earlier one has
CallLeaseInstruments ==
    [i \in 1..Len(call.note) |-> LeaseInstrument(call.note[i])]
FirstOfKey ==
    {i \in 1..Len(call.note) :
        \A j \in 1..(i - 1) :
            LeaseKey(CallLeaseInstruments[j]) # LeaseKey(CallLeaseInstruments[i])}

\* C21: the list parse_lease_note_html returns has no two instruments with
\* the same (instrument_name, amount_outstanding_mm, instrument_type); it is
\* the first occurrences of the keys, in the order of the tables and rows.
C21_LeaseDedupe ==
    call.fn = "parse_lease_note_html" =>
        /\ \A i, j \in 1..Len(result) : LeaseKey(result[i]) = LeaseKey(result[j]) => i = j
        /\ Len(result) = Cardinality(FirstOfKey)
        /\ \A i \in FirstOfKey :
              result[Cardinality({j \in FirstOfKey : j <= i})] = CallLeaseInstruments[i]

\* C21 witness: three rows, the third a repeat of the first in another table
\* with a raw amount that rounds to the same value; two instruments are
\* returned, the first row's and the second row's.
C21_Witness ==
    /\ call.fn = "parse_lease_note_html"
    /\ call.note = << [target |-> 1, raw |-> Amount(7, 1), table_index |-> 0],
                      [target |-> 3, raw |-> Amount(7, 1), table_index |-> 0],
                      [target |-> 1, raw |-> Amount(7, 4), table_index |-> 1] >>
    /\ Len(result) = 2
    /\ result[1].provenance.table_index = 0
    /\ result[2].instrument_type = Str(<<"finance_lease">>)

\* most table rows and most lease rows of the notes of a direct build call
MaxBuildRows == 2
MaxBuildLeases == 2

\* table rows of a build call: two unsecured notes, a table row named like a
\* facility in upper case, and a note without priority and without amount
RowNote2099 ==
    [name |-> <<"senior", "unsecured", "notes", "due", "March", "9", ",", "2099">>,
     amount |-> Amount(150000, 0), coupon |-> Amount(5, 9000)]
RowSeniorNoAmount ==
    [name |-> NoteSenior2030, amount |-> None, coupon |-> None]
BuildTableRows == {RowNote2026, RowNote2099, RowFacilityUpper, RowSeniorNoAmount}

\* build_capital_structure on a balance sheet with one fiscal-2024 column
\* and a cash row, a market cap of 2592.0, and every pair of notes; the call
\* records the two instrument lists the parsers return to it
CallBuild ==
    /\ call.fn = "none"
    /\ \E t \in SeqsUpTo(BuildTableRows, MaxBuildRows),
          f \in SeqsUpTo({FacilityUnsecured, FacilitySecured, FacilityPlain}, MaxFacilities),
          ln \in SeqsUpTo(LeaseRows, MaxBuildLeases) :
          /\ call' = [fn |-> "build_capital_structure",
                      dn |-> [table_rows |-> t, facilities |-> f], ln |-> ln,
                      lease_instruments |->
                          normalize_instrument_amounts(parse_lease_note_html(ln)),
                      debt_instruments |->
                          normalize_instrument_amounts(parse_debt_note_html(
                              [table_rows |-> t, facilities |-> f]))]
          /\ result' = build_capital_structure(
                           [columns |-> <<ColFY2024>>, rows |-> <<CashRowConcept>>],
                           [table_rows |-> t, facilities |-> f], ln,
                           [annual_period |-> PyInt(2024)], Amount(2592, 0))
    /\ UNCHANGED <<pipeline, server>>

BuildCalled == call.fn = "build_capital_structure"

\* the lists the two parsers return to the call, amounts rounded, and their
\* concatenation
BuildLease == call.lease_instruments
BuildDebt == call.debt_instruments
BuildAll == BuildLease \o BuildDebt

\* priority_groups of the returned document
Groups == result.issuer_groups[1].priority_groups

\* the instruments of the group with priority p (none: no such group)
GroupOf(p) ==
    IF \E g \in 1..Len(Groups) : Groups[g].priority = Str(p)
    THEN Groups[CHOOSE g \in 1..Len(Groups) : Groups[g].priority = Str(p)].instruments
    ELSE <<>>

\* the groups are among the three priorities, in display order, none twice,
\* none empty, and hold instruments of the call only
GroupsWellFormed ==
    /\ \A g \in 1..Len(Groups) :
          /\ \E k \in 1..Len(DisplayPriorities) : Groups[g].priority = Str(DisplayPriorities[k])
          /\ Groups[g].instruments # <<>>
          /\ \A i \in 1..Len(Groups[g].instruments) :
                Occurrences(BuildAll, Groups[g].instruments[i]) > 0
    /\ \A g, h \in 1..Len(Groups) :
          g < h => \E k, l \in 1..Len(DisplayPriorities) :
                      /\ k < l
                      /\ Groups[g].priority = Str(DisplayPriorities[k])
                      /\ Groups[h].priority = Str(DisplayPriorities[l])
    /\ \A i \in 1..Len(BuildLease) :
          /\ BuildLease[i].priority = Str(<<"Senior", "Secured">>)
          /\ Occurrences(GroupOf(<<"Senior", "Secured">>), BuildLease[i]) > 0

\* the priority an instrument is grouped by when its field is null or empty
PriorityOrUnsecured(ins) ==
    IF ins.priority = None \/ ins.priority = Str(<<>>) THEN Str(<<"Unsecured">>)
    ELSE ins.priority

\* C22 (as amended): in every built document priority_groups holds only
\* groups of the three priorities, each at most once, non-empty, in display
\* order; an instrument is in a group if and only if its priority field,
\* taken as "Unsecured" when it is null or empty, is the group's priority;
\* every lease instrument has priority "Senior Secured" and is in that
\* group; an instrument with any other priority is in no group.
C22_GroupedByPriorityOrDefault ==
    BuildCalled =>
        /\ GroupsWellFormed
        /\ \A i \in 1..Len(BuildAll), k \in 1..Len(DisplayPriorities) :
              Occurrences(GroupOf(DisplayPriorities[k]), BuildAll[i])
                 = IF PriorityOrUnsecured(BuildAll[i]) = Str(DisplayPriorities[k])
                   THEN Occurrences(BuildAll, BuildAll[i]) ELSE 0

\* C22 as stated: an instrument is in a group if and only if its own
\* priority field is the group's priority.
C22_GroupedByOwnPriority ==
    BuildCalled =>
        /\ GroupsWellFormed
        /\ \A i \in 1..Len(BuildAll), k \in 1..Len(DisplayPriorities) :
              Occurrences(GroupOf(DisplayPriorities[k]), BuildAll[i])
                 = IF BuildAll[i].priority = Str(DisplayPriorities[k])
                   THEN Occurrences(BuildAll, BuildAll[i]) ELSE 0

\* C22 witness: a lease instrument, an unsecured note, a note without
\* priority and a "Secured" facility; two groups, the facility in neither.
C22_Witness ==
    /\ BuildCalled
    /\ Len(BuildLease) = 1
    /\ call.dn.table_rows = <<RowNote2026, RowSeniorNoAmount>>
    /\ call.dn.facilities = <<FacilitySecured>>
    /\ Len(Groups) = 2
    /\ Len(GroupOf(<<"Senior", "Secured">>)) = 1
    /\ Len(GroupOf(<<"Unsecured">>)) = 2
    /\ \E i \in 1..2 : GroupOf(<<"Unsecured">>)[i].priority = None

IsRevolver(ins) == Contains(ins.instrument_name.val, <<"Revolving", "Credit", "Facility">>)
HasIntMaturity(ins) == ins.maturity_year.tag = "int"

\* C23: in every built document, in the "Unsecured" group every instrument
\* whose name contains "Revolving Credit Facility" stands before every one
\* whose name does not; the others are in ascending maturity_year order,
\* those without an integer maturity last; the "Senior Secured" and
\* "Subordinated" groups are in the order of the concatenation, leases
\* first, then debt in the parser's order.
C23_UnsecuredOrder ==
    BuildCalled =>
        LET U == GroupOf(<<"Unsecured">>)
        IN  /\ \A i, j \in 1..Len(U) :
                  (i < j /\ IsRevolver(U[j])) => IsRevolver(U[i])
            /\ \A i, j \in 1..Len(U) :
                  (i < j /\ ~IsRevolver(U[i]) /\ ~IsRevolver(U[j])) =>
                      /\ HasIntMaturity(U[j]) => HasIntMaturity(U[i])
                      /\ (HasIntMaturity(U[i]) /\ HasIntMaturity(U[j])) =>
                             U[i].maturity_year.val <= U[j].maturity_year.val
            /\ \A k \in {1, 3} :
                  GroupOf(DisplayPriorities[k])
                     = SelectSeq(BuildAll, LAMBDA x : x.priority = Str(DisplayPriorities[k]))

\* C23 witness: the parser lists the notes due 2026 and 2099 before the
\* facility without maturity; the group has the facility first, then the
\* notes by maturity; two lease instruments keep their order.
C23_Witness ==
    /\ BuildCalled
    /\ call.dn.table_rows = <<RowNote2099, RowNote2026>>
    /\ call.dn.facilities = <<FacilityPlain>>
    /\ ~IsRevolver(BuildDebt[1]) /\ IsRevolver(BuildDebt[3])
    /\ Len(GroupOf(<<"Unsecured">>)) = 3
    /\ IsRevolver(GroupOf(<<"Unsecured">>)[1])
    /\ GroupOf(<<"Unsecured">>)[2].maturity_year = PyInt(2026)
    /\ GroupOf(<<"Unsecured">>)[3].maturity_year = PyInt(2099)
    /\ Len(BuildLease) = 2
    /\ GroupOf(<<"Senior", "Secured">>) = BuildLease

\* the sum of the non-null amounts of the first n instruments of a list
RECURSIVE NonNullSum(_, _)
NonNullSum(instruments, n) ==
    IF n = 0 THEN 0
    ELSE NonNullSum(instruments, n - 1)
         + (IF instruments[n].amount_outstanding_mm = None THEN 0
            ELSE instruments[n].amount_outstanding_mm.val)

\* C24: in every built document each group's subtotal_outstanding_mm is the
\* sum, rounded to 3 decimals, of the amount_outstanding_mm of the group's
\* instruments that have one; an instrument with a null amount adds nothing.
C24_SubtotalIsGroupSum ==
    BuildCalled =>
        \A g \in 1..Len(Groups) :
            Groups[g].subtotal.subtotal_outstanding_mm
               = Float(Round3Units(NonNullSum(Groups[g].instruments,
                                              Len(Groups[g].instruments))))

\* C24 witness: two groups with different subtotals, the "Unsecured" one
\* with a positive amount, a zero amount and an instrument whose amount is
\* null.
C24_Witness ==
    /\ BuildCalled
    /\ Len(Groups) = 2
    /\ Len(Groups[2].instruments) = 3
    /\ \E i \in 1..3 : Groups[2].instruments[i].amount_outstanding_mm = None
    /\ \E i \in 1..3 : Groups[2].instruments[i].amount_outstanding_mm = Float(0)
    /\ \E i \in 1..3 : /\ Groups[2].instruments[i].amount_outstanding_mm # None
                        /\ Groups[2].instruments[i].amount_outstanding_mm.val > 0
    /\ Groups[1].subtotal.subtotal_outstanding_mm.val > 0
    /\ Groups[2].subtotal.subtotal_outstanding_mm.val > 0
    /\ Groups[1].subtotal # Groups[2].subtotal

NextCalls ==
    \/ CallBuild
    \/ CallParseLeaseNote
    \/ CallLeaseRow
    \/ CallParseDebtNote
    \/ CallScalers
    \/ CallSelectPeriod
    \/ CallFindRow
    \/ CallFindRowByConceptOrLabel
    \/ CallToMillions
    \/ CallPrimaryTable
    \/ CallScanRow

SpecCalls == Init /\ [][NextCalls]_vars

-----------------------------------------------------------------------------
(* app/jobs.py, app/main.py: the job server *)

\* Job as JobManager.create_job makes it.  `files` says whether job_dir is
\* on disk and `docs` what the four uploads in input_dir hold.
NewJob ==
    [status |-> "queued", error |-> None, ticker |-> None, market_cap_mm |-> None,
     market_cap_meta |-> None, html_path |-> None, built_json_path |-> None,
     files |-> "present", docs |-> "none"]

\* a faulty rejection: the job whose files are removed is marked failed
DeleteFilesAndFail(job) == [job EXCEPT !.files = "deleted", !.status = "failed"]

\* delete_job_files: job_dir removed, the Job stays in _jobs
delete_job_files(job) == [job EXCEPT !.files = "deleted"]

\* _set_status: status and error of the job, if there is such a job
_set_status(jobs, job_id, status, err) ==
    IF job_id \in 1..Len(jobs)
    THEN [jobs EXCEPT ![job_id].status = status, ![job_id].error = err]
    ELSE jobs

\* a thread that start_job has not made, and the one it makes: the runner
\* closure holds the arguments; proc1, proc2 and e are locals of _run_pipeline
NoThread ==
    [pc |-> "none", market_cap_mm |-> None, period_end_text |-> None, ticker |-> None,
     market_cap_meta |-> None, proc1 |-> None, proc2 |-> None, e |-> None]

start_job(market_cap_mm, period_end_text, ticker, market_cap_meta) ==
    [NoThread EXCEPT !.pc = "waiting", !.market_cap_mm = market_cap_mm,
                     !.period_end_text = period_end_text, !.ticker = ticker,
                     !.market_cap_meta = market_cap_meta]

\* a faulty semaphore: acquire never blocks
SemaAlwaysAcquirable(sema) == TRUE

\* threading.Semaphore: acquire goes on when a permit is left
SemaAcquirable(sema) == sema > 0

\* a faulty exit of the with block: the permit is not given back
SemaReleaseLost(sema) == sema

\* threading.Semaphore: release
SemaRelease(sema) == sema + 1

\* the options of cmd_build, in order (their values are left out)
cmd_build(thread) ==
    <<"--balance", "--debt", "--lease", "--metadata", "--market-cap-mm", "--out">>
    \o (IF Truthy(thread.period_end_text) THEN <<"--period-end">> ELSE <<>>)

\* capital_structure_builder.main: the options its ArgumentParser knows, all
\* of them required
BuilderOptions == {"--balance", "--debt", "--lease", "--metadata", "--market-cap-mm", "--out"}

\* the exit status of the builder subprocess: 2 when parse_args rejects the
\* command line, 1 when build_capital_structure raises, else 0
BuilderExit(cmd, job) ==
    IF \E i \in 1..Len(cmd) : cmd[i] \notin BuilderOptions THEN 2
    ELSE IF \E o \in BuilderOptions : \A i \in 1..Len(cmd) : cmd[i] # o THEN 2
    ELSE IF job.files = "deleted" \/ job.docs = "builder_fails" THEN 1
    ELSE 0

\* the exit status of the renderer subprocess
RendererExit(job) == IF job.docs = "renderer_fails" THEN 1 ELSE 0

\* a faulty pipeline: html_path is left unset
WithoutHtmlPath(job) == job

\* job.html_path = out_html
WithHtmlPath(job) == [job EXCEPT !.html_path = Str(<<"generated.html">>)]

\* job.built_json_path = built_json
WithBuiltJsonPath(job) == [job EXCEPT !.built_json_path = Str(<<"built_capital_structure.json">>)]

\* what a POST /api/jobs carries: the market cap override, the ticker, what
\* the ticker lookup returns if it is made, the period end override, and
\* what the four uploads hold
LookupFound == [tag |-> "MarketCapResult", market_cap_mm |-> Amount(3000, 5000)]
PeriodEndGiven == Str(<<"December", "28", ",", "2024">>)

PostForms ==
    {[market_cap_mm |-> Amount(2592, 0), ticker |-> Str(<<"AAP">>), lookup |-> LookupFound,
      period_end_text |-> None, docs |-> "good"],
     [market_cap_mm |-> Amount(2592, 0), ticker |-> Str(<<"AAP">>), lookup |-> LookupFound,
      period_end_text |-> PeriodEndGiven, docs |-> "good"],
     [market_cap_mm |-> None, ticker |-> Str(<<"AAP">>), lookup |-> LookupFound,
      period_end_text |-> None, docs |-> "builder_fails"],
     [market_cap_mm |-> Amount(2592, 0), ticker |-> None, lookup |-> None,
      period_end_text |-> None, docs |-> "renderer_fails"],
     [market_cap_mm |-> None, ticker |-> Str(<<"AAP">>), lookup |-> None,
      period_end_text |-> None, docs |-> "good"],
     [market_cap_mm |-> None, ticker |-> None, lookup |-> LookupFound,
      period_end_text |-> None, docs |-> "good"],
     [market_cap_mm |-> Amount(2592, 0), ticker |-> None, lookup |-> None,
      period_end_text |-> None, docs |-> "metadata_not_json"]}

\* a faulty resolution: the ticker is looked up first, the override used
\* only when the lookup gives nothing
ResolveTickerFirst(form) ==
    IF Truthy(form.ticker) /\ form.lookup # None
    THEN [resolved |-> Float(form.lookup.market_cap_mm.val),
          meta |-> [tag |-> "dict", source |-> "lookup"], lookup_made |-> TRUE]
    ELSE [resolved |-> form.market_cap_mm, meta |-> None,
          lookup_made |-> Truthy(form.ticker)]

\* create_job: the market cap the job runs with (None: there is none), the
\* metadata of the lookup, and whether get_market_cap_mm_yfinance was called
ResolveMarketCap(form) ==
    IF form.market_cap_mm # None
    THEN [resolved |-> form.market_cap_mm, meta |-> None, lookup_made |-> FALSE]
    ELSE IF Truthy(form.ticker)
    THEN IF form.lookup # None
         THEN [resolved |-> Float(form.lookup.market_cap_mm.val),
               meta |-> [tag |-> "dict", source |-> "lookup"], lookup_made |-> TRUE]
         ELSE [resolved |-> None, meta |-> None, lookup_made |-> TRUE]
    ELSE [resolved |-> None, meta |-> None, lookup_made |-> FALSE]

\* POST /api/jobs: the whole handler.  Until it returns nobody else knows
\* the job id, so its steps are taken as one.
PostJobs ==
    /\ Len(_jobs) < MaxJobs
    /\ \E form \in PostForms :
          LET uploaded == [NewJob EXCEPT !.docs = form.docs]
              r == ResolveMarketCap(form)
          IN  IF form.docs = "metadata_not_json"
              THEN /\ _jobs' = Append(_jobs, delete_job_files(uploaded))
                   /\ threads' = Append(threads, NoThread)
                   /\ posts' = Append(posts, [form |-> form, lookup_made |-> FALSE,
                                              code |-> 400, market_cap_mm |-> None])
              ELSE IF r.resolved = None
              THEN /\ _jobs' = Append(_jobs, delete_job_files(uploaded))
                   /\ threads' = Append(threads, NoThread)
                   /\ posts' = Append(posts, [form |-> form, lookup_made |-> r.lookup_made,
                                              code |-> 400, market_cap_mm |-> None])
              ELSE /\ _jobs' = Append(_jobs, uploaded)
                   /\ threads' = Append(threads, start_job(r.resolved, form.period_end_text,
                                                           form.ticker, r.meta))
                   /\ posts' = Append(posts, [form |-> form, lookup_made |-> r.lookup_made,
                                              code |-> 200, market_cap_mm |-> r.resolved])
    /\ UNCHANGED <<pipeline, call, result, _sema, request>>

\* runner: with self._sema
Acquire(j) ==
    /\ j \in 1..Len(threads)
    /\ threads[j].pc = "waiting"
    /\ SemaAcquirable(_sema)
    /\ _sema' = _sema - 1
    /\ threads' = [threads EXCEPT ![j].pc = "entered"]
    /\ UNCHANGED <<pipeline, call, result, _jobs, posts, request>>

\* _run_pipeline: get_job, and the inputs stored on the job
StoreInputs(j) ==
    /\ j \in 1..Len(threads)
    /\ threads[j].pc = "entered"
    /\ _jobs' = [_jobs EXCEPT ![j].market_cap_mm = threads[j].market_cap_mm,
                              ![j].ticker = threads[j].ticker,
                              ![j].market_cap_meta = threads[j].market_cap_meta]
    /\ threads' = [threads EXCEPT ![j].pc = "stored"]
    /\ UNCHANGED <<pipeline, call, result, _sema, posts, request>>

\* _run_pipeline: self._set_status(job_id, "running")
SetRunning(j) ==
    /\ j \in 1..Len(threads)
    /\ threads[j].pc = "stored"
    /\ _jobs' = _set_status(_jobs, j, "running", None)
    /\ threads' = [threads EXCEPT ![j].pc = "build"]
    /\ UNCHANGED <<pipeline, call, result, _sema, posts, request>>

\* _run_pipeline: proc1 = subprocess.run(cmd_build), and the raise
RunBuilder(j) ==
    /\ j \in 1..Len(threads)
    /\ threads[j].pc = "build"
    /\ LET rc == BuilderExit(cmd_build(threads[j]), _jobs[j])
       IN  threads' = [threads EXCEPT
               ![j].proc1 = PyInt(rc),
               ![j].pc = IF rc = 0 THEN "render" ELSE "raise",
               ![j].e = IF rc = 0 THEN None
                        ELSE Str(<<"capital_structure_builder.py", "failed">>)]
    /\ UNCHANGED <<pipeline, call, result, _jobs, _sema, posts, request>>

\* _run_pipeline: proc2 = subprocess.run(cmd_render), and the raise
RunRenderer(j) ==
    /\ j \in 1..Len(threads)
    /\ threads[j].pc = "render"
    /\ LET rc == RendererExit(_jobs[j])
       IN  threads' = [threads EXCEPT
               ![j].proc2 = PyInt(rc),
               ![j].pc = IF rc = 0 THEN "set_html" ELSE "raise",
               ![j].e = IF rc = 0 THEN None ELSE Str(<<"html_renderer.py", "failed">>)]
    /\ UNCHANGED <<pipeline, call, result, _jobs, _sema, posts, request>>

\* _run_pipeline: job.html_path = out_html
SetHtmlPath(j) ==
    /\ j \in 1..Len(threads)
    /\ threads[j].pc = "set_html"
    /\ _jobs' = [_jobs EXCEPT ![j] = WithHtmlPath(@)]
    /\ threads' = [threads EXCEPT ![j].pc = "set_built_json"]
    /\ UNCHANGED <<pipeline, call, result, _sema, posts, request>>

\* _run_pipeline: job.built_json_path = built_json (the note appended to the
\* HTML file afterwards changes no state of the manager)
SetBuiltJsonPath(j) ==
    /\ j \in 1..Len(threads)
    /\ threads[j].pc = "set_built_json"
    /\ _jobs' = [_jobs EXCEPT ![j] = WithBuiltJsonPath(@)]
    /\ threads' = [threads EXCEPT ![j].pc = "succeed"]
    /\ UNCHANGED <<pipeline, call, result, _sema, posts, request>>

\* _run_pipeline: self._set_status(job_id, "succeeded")
Succeed(j) ==
    /\ j \in 1..Len(threads)
    /\ threads[j].pc = "succeed"
    /\ _jobs' = _set_status(_jobs, j, "succeeded", None)
    /\ threads' = [threads EXCEPT ![j].pc = "release"]
    /\ UNCHANGED <<pipeline, call, result, _sema, posts, request>>

\* _run_pipeline: except Exception as e: self._set_status(job_id, "failed", error=str(e))
Fail(j) ==
    /\ j \in 1..Len(threads)
    /\ threads[j].pc = "raise"
    /\ _jobs' = _set_status(_jobs, j, "failed", threads[j].e)
    /\ threads' = [threads EXCEPT ![j].pc = "release"]
    /\ UNCHANGED <<pipeline, call, result, _sema, posts, request>>

\* runner: the end of the with block, and of the thread
Release(j) ==
    /\ j \in 1..Len(threads)
    /\ threads[j].pc = "release"
    /\ _sema' = SemaRelease(_sema)
    /\ threads' = [threads EXCEPT ![j].pc = "done"]
    /\ UNCHANGED <<pipeline, call, result, _jobs, posts, request>>

\* the steps of the runner thread of job j
ThreadStep(j) ==
    \/ Acquire(j) \/ StoreInputs(j) \/ SetRunning(j) \/ RunBuilder(j) \/ RunRenderer(j)
    \/ SetHtmlPath(j) \/ SetBuiltJsonPath(j) \/ Succeed(j) \/ Fail(j) \/ Release(j)

NextJobs ==
    \/ PostJobs
    \/ \E j \in 1..MaxJobs : Acquire(j)
    \/ \E j \in 1..MaxJobs : StoreInputs(j)
    \/ \E j \in 1..MaxJobs : SetRunning(j)
    \/ \E j \in 1..MaxJobs : RunBuilder(j)
    \/ \E j \in 1..MaxJobs : RunRenderer(j)
    \/ \E j \in 1..MaxJobs : SetHtmlPath(j)
    \/ \E j \in 1..MaxJobs : SetBuiltJsonPath(j)
    \/ \E j \in 1..MaxJobs : Succeed(j)
    \/ \E j \in 1..MaxJobs : Fail(j)
    \/ \E j \in 1..MaxJobs : Release(j)

\* every runner thread that can take a step eventually takes one: threads
\* are scheduled fairly and the subprocesses end
SpecJobs == Init /\ [][NextJobs]_vars /\ \A j \in 1..MaxJobs : WF_vars(ThreadStep(j))

\* a GET handler may start when no other is in progress
NoRequest == request.pc \in {"idle", "responded"}

\* GET /api/jobs/{job_id}
GetJob ==
    /\ NoRequest
    /\ \E id \in 1..MaxJobs :
          request' = IF id \in 1..Len(_jobs)
                     THEN [pc |-> "responded", endpoint |-> "get_job", job_id |-> id,
                           code |-> 200, status |-> _jobs[id].status]
                     ELSE [pc |-> "responded", endpoint |-> "get_job", job_id |-> id,
                           code |-> 404]
    /\ UNCHANGED <<pipeline, call, result, _jobs, threads, _sema, posts>>

\* GET /api/jobs/{job_id}/result: jm.get_job and the test job.status == "failed"
GetResult ==
    /\ NoRequest
    /\ \E id \in 1..MaxJobs :
          request' = IF id \notin 1..Len(_jobs)
                     THEN [pc |-> "responded", endpoint |-> "get_result", job_id |-> id,
                           code |-> 404]
                     ELSE IF _jobs[id].status = "failed"
                     THEN [pc |-> "responded", endpoint |-> "get_result", job_id |-> id,
                           code |-> 400]
                     ELSE [pc |-> "check_succeeded", endpoint |-> "get_result",
                           job_id |-> id, first_status |-> _jobs[id].status]
    /\ UNCHANGED <<pipeline, call, result, _jobs, threads, _sema, posts>>

\* get_result: the test job.status != "succeeded", a second read of the status
GetResultCheck ==
    /\ request.pc = "check_succeeded"
    /\ request' = IF _jobs[request.job_id].status # "succeeded"
                  THEN [pc |-> "responded", endpoint |-> "get_result",
                        job_id |-> request.job_id, code |-> 409,
                        first_status |-> request.first_status]
                  ELSE [pc |-> "read_result", endpoint |-> "get_result",
                        job_id |-> request.job_id]
    /\ UNCHANGED <<pipeline, call, result, _jobs, threads, _sema, posts>>

\* get_result: jm.read_result(job_id); an exception of it becomes a 500
ReadResult ==
    /\ request.pc = "read_result"
    /\ LET job == _jobs[request.job_id]
       IN  request' = IF job.status # "succeeded"
                      THEN [pc |-> "responded", endpoint |-> "get_result",
                            job_id |-> request.job_id, code |-> 500]
                      ELSE [pc |-> "responded", endpoint |-> "get_result",
                            job_id |-> request.job_id, code |-> 200,
                            html |-> job.html_path, built |-> job.built_json_path]
    /\ UNCHANGED <<pipeline, call, result, _jobs, threads, _sema, posts>>

\* GET /api/jobs/{job_id}/download/html (download/json is the same handler
\* over built_json_path)
DownloadHtml ==
    /\ NoRequest
    /\ \E id \in 1..MaxJobs :
          request' = IF id \notin 1..Len(_jobs)
                     THEN [pc |-> "responded", endpoint |-> "download_html", job_id |-> id,
                           code |-> 404]
                     ELSE IF _jobs[id].status # "succeeded" \/ ~Truthy(_jobs[id].html_path)
                     THEN [pc |-> "responded", endpoint |-> "download_html", job_id |-> id,
                           code |-> 409]
                     ELSE [pc |-> "responded", endpoint |-> "download_html", job_id |-> id,
                           code |-> 200, path |-> _jobs[id].html_path]
    /\ UNCHANGED <<pipeline, call, result, _jobs, threads, _sema, posts>>

\* the job server with its GET handlers
NextApi ==
    \/ NextJobs
    \/ GetJob
    \/ GetResult
    \/ GetResultCheck
    \/ ReadResult
    \/ DownloadHtml

SpecApi == Init /\ [][NextApi]_vars

-----------------------------------------------------------------------------
(* Properties of the job server *)

JobIds == 1..Len(_jobs)

\* the runner thread of job j is inside the with block of the semaphore
InSema(j) == threads[j].pc \notin {"none", "waiting", "done"}

\* start_job was called for job j
Started(j) == threads[j].pc # "none"

\* C25: at every moment at most MAX_CONCURRENT_JOBS jobs are executing
\* _run_pipeline and at most that many have status "running"; a started job
\* whose thread waits for the semaphore has status "queued".
C25_ConcurrencyBounded ==
    /\ Cardinality({j \in JobIds : InSema(j)}) <= MAX_CONCURRENT_JOBS
    /\ Cardinality({j \in JobIds : _jobs[j].status = "running"}) <= MAX_CONCURRENT_JOBS
    /\ \A j \in JobIds : threads[j].pc = "waiting" => _jobs[j].status = "queued"

\* C25 witness: MAX_CONCURRENT_JOBS jobs are running and one more started
\* job waits, queued, with no permit left.
C25_Witness ==
    /\ Cardinality({j \in JobIds : _jobs[j].status = "running"}) = MAX_CONCURRENT_JOBS
    /\ _sema = 0
    /\ \E j \in JobIds : threads[j].pc = "waiting" /\ _jobs[j].status = "queued"

\* what the claim C26 says of the POST that created job j
PostResolved(j) ==
    LET p == posts[j]
        f == p.form
    IN  /\ f.market_cap_mm # None =>
              /\ p.code = 200 /\ ~p.lookup_made
              /\ Started(j) /\ threads[j].market_cap_mm = f.market_cap_mm
              /\ p.market_cap_mm = f.market_cap_mm
        /\ (f.market_cap_mm = None /\ Truthy(f.ticker) /\ f.lookup # None) =>
              /\ p.code = 200 /\ p.lookup_made
              /\ Started(j) /\ threads[j].market_cap_mm = Float(f.lookup.market_cap_mm.val)
        /\ (f.market_cap_mm = None /\ (~Truthy(f.ticker) \/ f.lookup = None)) =>
              /\ p.code = 400
              /\ _jobs[j].files = "deleted"
              /\ ~Started(j) /\ _jobs[j].status = "queued"

\* C26 (as amended): for a POST /api/jobs whose uploads are saved and whose
\* metadata.json is valid JSON: with market_cap_mm supplied the pipeline is
\* started with that value and no ticker lookup is made; with it absent and
\* a ticker lookup that succeeds the pipeline is started with the fetched
\* value; when neither gives a value the request is rejected with 400, the
\* job's files are deleted and the pipeline is never started for the job.
C26_MarketCapResolution ==
    \A j \in JobIds : posts[j].form.docs # "metadata_not_json" => PostResolved(j)

\* C26 as stated: the same for every POST /api/jobs.
C26_MarketCapResolutionAnyUpload ==
    \A j \in JobIds : PostResolved(j)

\* C26 witness: one POST with market cap and ticker started its job with
\* the supplied value without a lookup; another without market cap, whose
\* lookup found nothing, was rejected and its job never started.
C26_Witness ==
    /\ Len(_jobs) = 2
    /\ posts[1].form.market_cap_mm # None /\ Truthy(posts[1].form.ticker)
    /\ posts[1].code = 200 /\ ~posts[1].lookup_made
    /\ threads[1].pc = "done" /\ _jobs[1].market_cap_mm = posts[1].form.market_cap_mm
    /\ posts[2].form.market_cap_mm = None /\ posts[2].lookup_made
    /\ posts[2].code = 400 /\ _jobs[2].files = "deleted" /\ threads[2].pc = "none"

StatusValues == {"queued", "running", "succeeded", "failed"}
StatusMoves ==
    {<<"queued", "running">>, <<"running", "succeeded">>, <<"running", "failed">>}

\* C27: a job's status is one of queued, running, succeeded, failed; a new
\* job is queued; a status changes only from queued to running, from running
\* to succeeded and from running to failed, so that succeeded and failed are
\* final and are reached from running only.
C27_StatusMoves ==
    [][\A j \in 1..Len(_jobs') :
          /\ _jobs'[j].status \in StatusValues
          /\ IF j <= Len(_jobs)
             THEN \/ _jobs'[j].status = _jobs[j].status
                  \/ <<_jobs[j].status, _jobs'[j].status>> \in StatusMoves
             ELSE _jobs'[j].status = "queued"]_vars

\* C27 witness: one job has failed after running and its thread has ended,
\* another is running, a rejected one would stay queued.
C27_Witness ==
    /\ Len(_jobs) = 2
    /\ \E j, k \in JobIds :
          /\ _jobs[j].status = "failed" /\ threads[j].pc = "done"
          /\ threads[j].proc1 # None
          /\ _jobs[k].status = "running"

Finished(j) == j \in JobIds /\ _jobs[j].status \in {"succeeded", "failed"}

\* a subprocess of job j's thread has run and has exited non-zero
ExitedNonZero(proc) == proc # None /\ proc # PyInt(0)

\* C28: every job for which start_job was called eventually has status
\* succeeded or failed, the runner threads being scheduled fairly and the
\* subprocesses ending; the renderer is not run after a builder that exited
\* non-zero; a job whose builder or renderer exited non-zero ends failed
\* with a non-empty error.
C28_StartedJobsFinish ==
    /\ \A j \in 1..MaxJobs : (j \in JobIds /\ Started(j)) ~> Finished(j)
    /\ [](\A j \in JobIds :
            /\ ExitedNonZero(threads[j].proc1) => threads[j].proc2 = None
            /\ (/\ threads[j].pc \in {"release", "done"}
                /\ (ExitedNonZero(threads[j].proc1) \/ ExitedNonZero(threads[j].proc2))) =>
                  /\ _jobs[j].status = "failed"
                  /\ Truthy(_jobs[j].error))

\* C28 witness: two jobs were started and both threads have ended; one job
\* failed because its renderer exited non-zero, the other because its
\* builder did, and for that one the renderer was not run.
C28_Witness ==
    /\ Len(_jobs) = 2
    /\ \A j \in JobIds : threads[j].pc = "done" /\ _jobs[j].status = "failed"
    /\ \E j \in JobIds : threads[j].proc1 = PyInt(0) /\ threads[j].proc2 = PyInt(1)
    /\ \E j \in JobIds : threads[j].proc1 = PyInt(1) /\ threads[j].proc2 = None
    /\ _sema = MAX_CONCURRENT_JOBS

Responded(endpoint) == request.pc = "responded" /\ request.endpoint = endpoint

\* a step in which a GET handler sends its response
Responds == request'.pc = "responded" /\ request' # request

\* C29: a job whose status is succeeded has html_path and built_json_path
\* set, whichever handler reads it and whenever; get_result answers 200 only
\* for a succeeded job and with both paths set, 404 for a job id that is
\* unknown when it answers, 400 for a failed job, 409 for a job that was
\* queued or running when the handler read its status, and never 500; the
\* download endpoint answers 200 only for a succeeded job.
C29_SucceededHasResult ==
    /\ [](/\ \A j \in JobIds :
                _jobs[j].status = "succeeded" =>
                    _jobs[j].html_path # None /\ _jobs[j].built_json_path # None
          /\ Responded("get_result") =>
                /\ request.code \in {200, 400, 404, 409}
                /\ request.code = 200 =>
                      /\ _jobs[request.job_id].status = "succeeded"
                      /\ request.html # None
                      /\ request.built # None
                /\ request.code = 400 => _jobs[request.job_id].status = "failed"
                /\ request.code = 409 => request.first_status \in {"queued", "running"}
          /\ (Responded("download_html") /\ request.code = 200) =>
                /\ _jobs[request.job_id].status = "succeeded"
                /\ request.path # None
          /\ (Responded("get_job") /\ request.code = 200 /\ request.status = "succeeded") =>
                _jobs[request.job_id].html_path # None)
    /\ [][(Responds /\ request'.code = 404) => request'.job_id \notin 1..Len(_jobs)]_vars

\* C29 witness: get_result has answered 200 with both paths for a job whose
\* thread has set the status succeeded, while another job has failed.
C29_Witness ==
    /\ Responded("get_result")
    /\ request.code = 200
    /\ request.html # None
    /\ request.built # None
    /\ threads[request.job_id].pc \in {"release", "done"}
    /\ \E j \in JobIds : _jobs[j].status = "failed"

\* the pipeline of job j would succeed had the job been started without
\* period_end_text: the builder and the renderer both exit with status 0
SucceedsWithoutPeriodEnd(j) ==
    /\ BuilderExit(cmd_build([threads[j] EXCEPT !.period_end_text = None]), _jobs[j]) = 0
    /\ RendererExit(_jobs[j]) = 0

\* C30: a job started with a non-empty period_end_text whose thread has
\* ended has status succeeded whenever the same documents and market cap
\* without period_end_text succeed: the builder accepts the command line
\* the job manager assembles.
C30_PeriodEndIsOptional ==
    \A j \in JobIds :
        (/\ Started(j)
         /\ threads[j].pc = "done"
         /\ Truthy(threads[j].period_end_text)
         /\ SucceedsWithoutPeriodEnd(j)) =>
            /\ BuilderExit(cmd_build(threads[j]), _jobs[j]) = 0
            /\ _jobs[j].status = "succeeded"

====
